---- MODULE Spec2Model ----
(***************************************************************************)
(* Model of the paper-trading engine (src/run.py, TradingEngine) and of    *)
(* the order-book feed client (src/helpers/orderbook_wss.py,               *)
(* OrderbookStreamer).                                                     *)
(*                                                                         *)
(* Units.  Probabilities and book prices are integers in thousandths       *)
(* (0..1000 stands for 0.0..1.0).  Position entry and exit prices carry    *)
(* the percent cost factor and are integers in hundred-thousandths         *)
(* (prob * 101, prob * 99).  Money is in cents.  Realised P&L is an exact  *)
(* rational <<num, den>> in cents.  Time is in seconds.                    *)
(***************************************************************************)
EXTENDS Integers, Sequences, FiniteSets, TLC

VARIABLES
    \* ---- OrderbookStreamer (src/helpers/orderbook_wss.py:48-55)
    orderbooks,        \* dict key -> OrderbookState, in insertion order
    subscriptions,     \* list of <<condition_id, token_id, side>>
    pending_subs,      \* list of token ids still to be sent
    force_reconnect,   \* the _force_reconnect flag
    \* ---- TradingEngine (src/run.py:51-77)
    trade_size,        \* the engine's trade_size parameter, in cents
    markets,           \* dict cid -> Market, in insertion order
    states,            \* dict cid -> MarketState
    positions,         \* dict cid -> Position, in insertion order
    total_pnl,         \* rational <<num, den>>, cents
    trade_count,
    win_count,
    pc,                \* where TradingEngine.run is
    \* ---- TradingEngine.decision_loop (src/run.py:224-328)
    loop_at,           \* 0: suspended at an await; k: at the k-th market
    pass_books,        \* the orderbooks when the current pass began
    \* ---- the dashboard module (src/dashboard_cinematic.py:13-28, 338-368)
    dashboard_state,   \* field -> the update_dashboard_state call that wrote it
    update_call,       \* the engine's call in progress and its next field
    emit_read,         \* the fields emit_state has read so far
    state_update,      \* the latest state_update message emitted
    \* ---- OrderbookStreamer.stream (src/helpers/orderbook_wss.py:116-196)
    running,           \* self.running of the streamer
    spc,               \* the await at which stream() is suspended
    conn_init,         \* subscription messages that opened this connection
    queued_live,       \* trailing pending tokens queued on this connection
    last_close,        \* how the latest connection (attempt) ended
    stream_ev,         \* what the latest step of stream() or its caller did
    \* ---- environment and observation
    now,               \* datetime.now(timezone.utc), seconds
    trade_sink,        \* the _record_trade / emit_trade calls of the latest step
    feed_op            \* the latest call made on the OrderbookStreamer

feedVars == <<orderbooks, subscriptions, pending_subs, force_reconnect>>
engineVars == <<trade_size, markets, states, positions, total_pnl, trade_count,
                win_count, pc>>
obsVars == <<trade_sink, feed_op>>
streamVars == <<running, spc, conn_init, queued_live, last_close, stream_ev>>
loopVars == <<loop_at, pass_books>>
dashVars == <<dashboard_state, update_call, emit_read, state_update>>
vars == <<feedVars, engineVars, loopVars, obsVars, now, streamVars, dashVars>>

----------------------------------------------------------------------------
(* Bounds of the model *)

MaxTime == 60          \* the clock stops advancing here
TimeStep == 15         \* seconds between two modelled decision ticks
MaxPending == 4        \* subscribe is not called with a longer pending queue
MaxTrades == 2         \* ticks stop once this many trades were realised
NumCallbacks == 2      \* callbacks registered with on_update
MaxLevels == 11
MaxUpdates == 3        \* update_dashboard_state calls the engine makes

(* Program constants *)

NoneVal == -1          \* Python's None where a number is expected
DEPTH == 10            \* book depth kept by _handle_book_update
HOLD_SECONDS == 30     \* minimum hold before a strategy close
MIN_LIFE_SECONDS == 30 \* mins_left < 0.5 skips a market
FEE == 101             \* entry cost factor 1.01, in percent
EXIT_FEE == 99         \* exit cost factor 0.99, in percent
FORCE_EXIT_FEE == 99   \* close_all_positions' own EXIT_FEE, in percent
HISTORY_MAX == 100     \* prob_history keeps the last 100 observations

----------------------------------------------------------------------------
(* Generic helpers: Python lists and insertion-ordered dicts *)

Range(s) == {s[i] : i \in 1..Len(s)}

Min(a, b) == IF a <= b THEN a ELSE b

\* A dict is a sequence of <<key, value>> pairs in insertion order.
DictKeys(d) == [i \in 1..Len(d) |-> d[i][1]]
DictKeySet(d) == {d[i][1] : i \in 1..Len(d)}
DictHas(d, k) == k \in DictKeySet(d)
DictGet(d, k) == d[CHOOSE i \in 1..Len(d) : d[i][1] = k][2]
\* d[k] = v: an existing key keeps its place, a new key goes last.
DictPut(d, k, v) ==
    IF DictHas(d, k)
    THEN [i \in 1..Len(d) |-> IF d[i][1] = k THEN <<k, v>> ELSE d[i]]
    ELSE Append(d, <<k, v>>)

----------------------------------------------------------------------------
(* OrderbookState: src/helpers/orderbook_wss.py:14-42 *)

Sides == {"UP", "DOWN"}

\* Condition ids are strings, modelled as sequences of characters.
CidA == <<"a">>
CidB == <<"a", "_", "b">>
Cids == {CidA, CidB}
Tokens == {"t1", "t2", "t3", "t4"}

NewBook(cid, token, side) ==
    [condition_id |-> cid, token_id |-> token, side |-> side,
     bids |-> <<>>, asks |-> <<>>, last_update |-> NoneVal]

\* Python truthiness of an Optional[float]: None and 0.0 are falsy.
Truthy(x) == x # NoneVal /\ x # 0

best_bid(ob) == IF ob.bids # <<>> THEN ob.bids[1][1] ELSE NoneVal
best_ask(ob) == IF ob.asks # <<>> THEN ob.asks[1][1] ELSE NoneVal

\* (best_bid + best_ask) / 2; level prices of the model are even, so the
\* integer division is exact.
mid_price(ob) ==
    IF Truthy(best_bid(ob)) /\ Truthy(best_ask(ob))
    THEN (best_bid(ob) + best_ask(ob)) \div 2
    ELSE IF Truthy(best_bid(ob)) THEN best_bid(ob) ELSE best_ask(ob)

\* best_ask - best_bid when both are truthy, None otherwise
spread(ob) ==
    IF Truthy(best_bid(ob)) /\ Truthy(best_ask(ob))
    THEN best_ask(ob) - best_bid(ob)
    ELSE NoneVal

\* f"{condition_id}_{side}"
BookKey(cid, side) == cid \o <<"_", side>>

\* k.rsplit('_', 1)[0]: the part of the key before its last underscore.
LastUnderscore(k) ==
    IF \E i \in 1..Len(k) : k[i] = "_"
    THEN CHOOSE i \in 1..Len(k) : k[i] = "_" /\ \A j \in (i+1)..Len(k) : k[j] # "_"
    ELSE 0

\* k.split('_')[0]: the part before the FIRST underscore (a slip of rsplit).
FirstUnderscoreHead(k) ==
    IF \E i \in 1..Len(k) : k[i] = "_"
    THEN SubSeq(k, 1, (CHOOSE i \in 1..Len(k) :
                          k[i] = "_" /\ \A j \in 1..(i-1) : k[j] # "_") - 1)
    ELSE k

KeyCid(k) ==
    IF LastUnderscore(k) = 0 THEN k ELSE SubSeq(k, 1, LastUnderscore(k) - 1)

----------------------------------------------------------------------------
(* OrderbookStreamer: the feed record is                                   *)
(* [orderbooks, subscriptions, pending_subs, force_reconnect]              *)

Feed(ob, subs, pend, force) ==
    [orderbooks |-> ob, subscriptions |-> subs, pending_subs |-> pend,
     force_reconnect |-> force]

CurrentFeed == Feed(orderbooks, subscriptions, pending_subs, force_reconnect)

\* subscribe without the existing_tokens test: every call appends.
SubscribeAlways(f, cid, token_up, token_down) ==
    Feed(DictPut(DictPut(f.orderbooks,
                         BookKey(cid, "UP"), NewBook(cid, token_up, "UP")),
                 BookKey(cid, "DOWN"), NewBook(cid, token_down, "DOWN")),
         f.subscriptions \o <<<<cid, token_up, "UP">>, <<cid, token_down, "DOWN">>>>,
         f.pending_subs \o <<token_up, token_down>>,
         f.force_reconnect)

\* subscribe(condition_id, token_up, token_down)
SubscribeOp(f, cid, token_up, token_down) ==
    LET existing_tokens == {s[2] : s \in Range(f.subscriptions)}
        addUp == token_up \notin existing_tokens
        addDown == token_down \notin existing_tokens
        subs1 == IF addUp THEN Append(f.subscriptions, <<cid, token_up, "UP">>)
                 ELSE f.subscriptions
        pend1 == IF addUp THEN Append(f.pending_subs, token_up)
                 ELSE f.pending_subs
        subs2 == IF addDown THEN Append(subs1, <<cid, token_down, "DOWN">>)
                 ELSE subs1
        pend2 == IF addDown THEN Append(pend1, token_down) ELSE pend1
        ob1 == DictPut(f.orderbooks, BookKey(cid, "UP"),
                       NewBook(cid, token_up, "UP"))
        ob2 == DictPut(ob1, BookKey(cid, "DOWN"),
                       NewBook(cid, token_down, "DOWN"))
    IN Feed(ob2, subs2, pend2, f.force_reconnect)

\* The condition id clear_stale reads out of an orderbooks key.
StaleKeyCid(k) == KeyCid(k)

\* clear_stale that asks for a reconnect on every call.
ClearStaleAlwaysFlags(f, active) ==
    LET KeepBook(e) == StaleKeyCid(e[1]) \in active
        KeepSub(s) == s[1] \in active
    IN Feed(SelectSeq(f.orderbooks, KeepBook),
            SelectSeq(f.subscriptions, KeepSub), f.pending_subs, TRUE)

\* clear_stale(active_condition_ids)
ClearStaleOp(f, active) ==
    LET KeepBook(e) == StaleKeyCid(e[1]) \in active
        KeepSub(s) == s[1] \in active
        kept == SelectSeq(f.orderbooks, KeepBook)
        had_stale == Len(kept) < Len(f.orderbooks)
        subs == SelectSeq(f.subscriptions, KeepSub)
    IN Feed(kept, subs, f.pending_subs,
            IF had_stale \/ Len(subs) < Len(f.subscriptions)
            THEN TRUE ELSE f.force_reconnect)

\* sorted(levels, key=price, reverse=...): a stable insertion sort.
RECURSIVE InsertLevel(_, _, _)
InsertLevel(sorted, lv, descending) ==
    IF sorted = <<>> THEN <<lv>>
    ELSE IF (descending /\ lv[1] > Head(sorted)[1])
            \/ (~descending /\ lv[1] < Head(sorted)[1])
         THEN <<lv>> \o sorted
         ELSE <<Head(sorted)>> \o InsertLevel(Tail(sorted), lv, descending)

RECURSIVE SortLevels(_, _)
SortLevels(levels, descending) ==
    IF levels = <<>> THEN <<>>
    ELSE InsertLevel(SortLevels(SubSeq(levels, 1, Len(levels) - 1), descending),
                     levels[Len(levels)], descending)

\* The book that keeps every level of the message.
TruncateNone(s, n) == s

\* [:n]
Truncate(s, n) == SubSeq(s, 1, Min(Len(s), n))

\* The index of the first book whose token_id is asset_id, 0 when none.
MatchingBook(ob, asset_id) ==
    IF \E i \in 1..Len(ob) : ob[i][2].token_id = asset_id
    THEN CHOOSE i \in 1..Len(ob) :
            /\ ob[i][2].token_id = asset_id
            /\ \A j \in 1..(i-1) : ob[j][2].token_id # asset_id
    ELSE 0

\* _handle_book_update(data) at time t
HandleBookUpdateOp(f, msg, t) ==
    LET i == MatchingBook(f.orderbooks, msg.asset_id)
        upd(b) == [b EXCEPT !.bids = Truncate(SortLevels(msg.bids, TRUE), DEPTH),
                            !.asks = Truncate(SortLevels(msg.asks, FALSE), DEPTH),
                            !.last_update = t]
    IN IF i = 0 THEN f
       ELSE [f EXCEPT !.orderbooks =
                [j \in 1..Len(f.orderbooks) |->
                    IF j = i THEN <<f.orderbooks[j][1], upd(f.orderbooks[j][2])>>
                    ELSE f.orderbooks[j]]]

\* get_orderbook(condition_id, side); NoneVal when the key is absent
HasOrderbook(f, cid, side) == DictHas(f.orderbooks, BookKey(cid, side))
GetOrderbook(f, cid, side) == DictGet(f.orderbooks, BookKey(cid, side))

SetFeed(f) ==
    /\ orderbooks' = f.orderbooks
    /\ subscriptions' = f.subscriptions
    /\ pending_subs' = f.pending_subs
    /\ force_reconnect' = f.force_reconnect

\* The latest call made on the streamer, as feed_op records it.
NoFeedOp == [op |-> "none"]
SubscribeCall(f, cid, token_up, token_down) ==
    [op |-> "subscribe", cid |-> cid, token_up |-> token_up,
     token_down |-> token_down,
     again |-> /\ <<cid, token_up, "UP">> \in Range(f.subscriptions)
               /\ <<cid, token_down, "DOWN">> \in Range(f.subscriptions)]
ClearStaleCall(active) == [op |-> "clear_stale", active |-> active]
BookUpdateCall(msg) ==
    [op |-> "book_update", asset_id |-> msg.asset_id, bids |-> msg.bids,
     asks |-> msg.asks]

----------------------------------------------------------------------------
(* OrderbookStreamer.stream: src/helpers/orderbook_wss.py:116-196.         *)
(* stream() runs as an asyncio task: between two awaits it runs alone, so  *)
(* each block below is one step, and spc names the await it stops at:      *)
(* "sleeping" (sleep 0.5), "connecting", "sending" (the initial            *)
(* subscription), "flushing" (an incremental subscription), "receiving",   *)
(* "closing" (leaving the async with), "backoff" (sleep 1), or "start" and *)
(* "done" before and after the task runs.                                  *)

Connected == {"sending", "flushing", "receiving"}

\* What a step did: the subscription message it handed to ws.send (kind and
\* tokens), the inbound message it decoded and the number of callback
\* invocations it made.
NoMsg == [type |-> "none"]
StreamEvent(step, kind, tokens, inbound, callbacks) ==
    [step |-> step, kind |-> kind, tokens |-> tokens, inbound |-> inbound,
     callbacks |-> callbacks]
NoEvent(step) == StreamEvent(step, "none", <<>>, NoMsg, 0)

\* The outer loop without its wait for subscriptions.
TopAlwaysConnects(f, run) == IF ~run THEN "done" ELSE "connecting"

\* while self.running: if not subscriptions and not pending: sleep; continue
TopLogic(f, run) ==
    IF ~run THEN "done"
    ELSE IF f.subscriptions = <<>> /\ f.pending_subs = <<>> THEN "sleeping"
    ELSE "connecting"

\* token_ids: the subscribed tokens, then the pending ones
InitialTokens(f) ==
    [i \in 1..Len(f.subscriptions) |-> f.subscriptions[i][2]] \o f.pending_subs

StreamBlock(f, next, kind, tokens, forced) ==
    [feed |-> f, spc |-> next, kind |-> kind, tokens |-> tokens,
     forced |-> forced]

\* The inner loop that empties the pending queue when it closes the
\* connection on the flag.
InnerDropsPendingOnForce(f, run) ==
    IF ~run THEN StreamBlock(f, "closing", "none", <<>>, FALSE)
    ELSE IF f.force_reconnect
    THEN StreamBlock([f EXCEPT !.force_reconnect = FALSE,
                               !.pending_subs = <<>>],
                     "closing", "none", <<>>, TRUE)
    ELSE IF f.pending_subs # <<>>
    THEN StreamBlock([f EXCEPT !.pending_subs = <<>>], "flushing",
                     "incremental", f.pending_subs, FALSE)
    ELSE StreamBlock(f, "receiving", "none", <<>>, FALSE)

\* One pass of the inner loop up to its next await: the running test, the
\* force-reconnect test, the flush of the pending tokens, then recv.
InnerLogic(f, run) ==
    IF ~run THEN StreamBlock(f, "closing", "none", <<>>, FALSE)
    ELSE IF f.force_reconnect
    THEN StreamBlock([f EXCEPT !.force_reconnect = FALSE], "closing", "none",
                     <<>>, TRUE)
    ELSE IF f.pending_subs # <<>>
    THEN StreamBlock([f EXCEPT !.pending_subs = <<>>], "flushing",
                     "incremental", f.pending_subs, FALSE)
    ELSE StreamBlock(f, "receiving", "none", <<>>, FALSE)

\* The connection that sends only the pending tokens.
OnConnectedPendingOnly(f, run) ==
    IF f.pending_subs # <<>>
    THEN StreamBlock([f EXCEPT !.pending_subs = <<>>], "sending", "initial",
                     f.pending_subs, FALSE)
    ELSE InnerLogic(f, run)

\* After websockets.connect returned: collect token_ids, clear the pending
\* queue, send one subscription message when there is a token.
OnConnected(f, run) ==
    IF InitialTokens(f) # <<>>
    THEN StreamBlock([f EXCEPT !.pending_subs = <<>>], "sending", "initial",
                     InitialTokens(f), FALSE)
    ELSE InnerLogic(f, run)

\* An exception handler that lets the exception end stream().
AfterExceptionStops(f, run) == "done"

\* An exception handler that goes straight back to the head of the loop.
AfterExceptionNoDelay(f, run) == TopLogic(f, run)

\* except Exception: await asyncio.sleep(1)
AfterException(f, run) == "backoff"


\* float(x) raises for a value that is no number (None in the model).
IsNumber(x) == x # NoneVal
ParseFails(levels) ==
    \E i \in 1..Len(levels) : ~IsNumber(levels[i][1]) \/ ~IsNumber(levels[i][2])

\* The handling record threaded through one inbound message:
\* [feed, callbacks, raised].
Handling(f) == [feed |-> f, callbacks |-> 0, raised |-> FALSE, calls |-> <<>>]

\* The callbacks are numbered in the order on_update registered them; the
\* first one raises on every call.
CallbackRaises(cb) == cb = 1

\* A callback loop without the try: the first raising callback ends it.
InvokeCallbacksUnguarded(ob) ==
    LET last == CHOOSE k \in 1..NumCallbacks :
                    /\ CallbackRaises(k) \/ k = NumCallbacks
                    /\ \A j \in 1..(k - 1) : ~CallbackRaises(j)
    IN [cb \in 1..last |->
           [cb |-> cb, ob |-> ob, raised |-> CallbackRaises(cb)]]

\* for cb in self.callbacks: try: cb(ob) except: pass -- the calls made,
\* each with the book as it is when the callback is called.
InvokeCallbacks(ob) ==
    [cb \in 1..NumCallbacks |->
        [cb |-> cb, ob |-> ob, raised |-> CallbackRaises(cb)]]

\* _handle_book_update(item) as stream() calls it: the levels are parsed
\* only once a book matched; a level that does not parse raises.
HandleItem(h, item, t) ==
    IF h.raised THEN h
    ELSE IF MatchingBook(h.feed.orderbooks, item.asset_id) = 0 THEN h
    ELSE IF ParseFails(item.bids) \/ ParseFails(item.asks)
    THEN [h EXCEPT !.raised = TRUE]
    ELSE LET f == HandleBookUpdateOp(h.feed, item, t)
             calls == InvokeCallbacks(
                          f.orderbooks[MatchingBook(f.orderbooks,
                                                    item.asset_id)][2])
         IN [h EXCEPT !.feed = f,
                      !.callbacks = h.callbacks + Len(calls),
                      !.calls = h.calls \o calls]

\* for item in data: self._handle_book_update(item)
RECURSIVE HandleItems(_, _, _)
HandleItems(h, items, t) ==
    IF items = <<>> THEN h
    ELSE HandleItems(HandleItem(h, Head(items), t), Tail(items), t)

\* A decode error that is not caught by the inner try.
JsonDecodeErrorRaises(h) == [h EXCEPT !.raised = TRUE]

\* except json.JSONDecodeError: pass
OnJsonDecodeError(h) == h

\* A price change that stamps every book.
TouchAllBooks(f, asset_id, t) ==
    [f EXCEPT !.orderbooks =
        [j \in 1..Len(f.orderbooks) |->
            <<f.orderbooks[j][1],
              [f.orderbooks[j][2] EXCEPT !.last_update = t]>>]]

\* One change of _handle_price_change: the first book of the token gets a
\* new last_update.
TouchBook(f, asset_id, t) ==
    LET i == MatchingBook(f.orderbooks, asset_id)
    IN IF i = 0 THEN f
       ELSE [f EXCEPT !.orderbooks[i][2].last_update = t]

\* _handle_price_change(data) at time t: for change in changes
RECURSIVE HandlePriceChangeOp(_, _, _)
HandlePriceChangeOp(f, changes, t) ==
    IF changes = <<>> THEN f
    ELSE HandlePriceChangeOp(TouchBook(f, Head(changes).asset_id, t),
                             Tail(changes), t)

\* json.loads(msg) and the dispatch on the decoded value
HandleInbound(f, msg, t) ==
    IF msg.type = "invalid" THEN OnJsonDecodeError(Handling(f))
    ELSE IF msg.type = "list" THEN HandleItems(Handling(f), msg.items, t)
    ELSE IF msg.type = "price_changes"
    THEN [Handling(f) EXCEPT !.feed = HandlePriceChangeOp(f, msg.changes, t)]
    ELSE HandleItem(Handling(f), msg.item, t)

----------------------------------------------------------------------------
(* Exact rational arithmetic for realised P&L (Python floats in the code) *)

Abs(x) == IF x < 0 THEN -x ELSE x

RECURSIVE GCD(_, _)
GCD(a, b) == IF b = 0 THEN a ELSE GCD(b, a % b)

\* n / d in lowest terms with a positive denominator; d > 0 is required.
Rat(n, d) ==
    IF n = 0 THEN <<0, 1>>
    ELSE LET g == GCD(Abs(n), d) IN <<n \div g, d \div g>>

RatAdd(x, y) == Rat(x[1] * y[2] + y[1] * x[2], x[2] * y[2])
RatPositive(x) == x[1] > 0

----------------------------------------------------------------------------
(* Position and the strategy's Action: src/run.py:34-43 and the strategies *)
(* package                                                                 *)

FlatPosition ==
    [side |-> "NONE", size |-> 0, entry_price |-> 0, entry_time |-> NoneVal,
     entry_prob |-> 0]

\* Action carries a direction and a size multiplier (in percent).
Multipliers == {100}
HOLD == [dir |-> "hold", size_multiplier |-> 100]
StrategyActions ==
    {HOLD} \cup {[dir |-> d, size_multiplier |-> m] :
                    d \in {"buy", "sell"}, m \in Multipliers}
is_buy(action) == action.dir = "buy"
is_sell(action) == action.dir = "sell"

----------------------------------------------------------------------------
(* TradingEngine.  The engine record threaded through one handler is       *)
(* [positions, states, markets, total_pnl, trade_count, win_count, sink,   *)
(* raised]; raised is TRUE once a ZeroDivisionError left the handler.      *)

\* The dashboard fields an update writes and emit_state reads, in the order
\* both functions go through them.
DashFields == <<"total_pnl", "trade_count", "win_count", "positions", "markets">>

CurrentEngine ==
    [positions |-> positions, states |-> states, markets |-> markets,
     total_pnl |-> total_pnl, trade_count |-> trade_count,
     win_count |-> win_count, sink |-> <<>>, raised |-> FALSE]

\* The own-side quote: prob for UP, 1 - prob otherwise.
OwnSidePrice(side, price) == IF side = "UP" THEN price ELSE 1000 - price

\* An exit price that forgets the side of the position.
ExitPriceUpOnly(side, price, fee) == price * fee

\* effective_exit_price = own-side price * EXIT_FEE
ExitPrice(side, price, fee) == OwnSidePrice(side, price) * fee

\* pnl = (effective_exit_price - pos.entry_price) * (pos.size / pos.entry_price)
RealizedPnl(pos, exit_price) ==
    Rat((exit_price - pos.entry_price) * pos.size, pos.entry_price)

\* No snapshot was pushed to the dashboard sink.
NoDash == [pushed |-> FALSE]

\* _update_dashboard_only(): the snapshot handed to update_dashboard_state,
\* built from the markets that have a state; shares = pos.size /
\* pos.entry_price raises for an open position with entry_price 0.
UpdateDashboardOnly(e) ==
    LET Shown(m) == DictHas(e.states, m[1])
        Open(m) == /\ Shown(m)
                   /\ DictHas(e.positions, m[1])
                   /\ DictGet(e.positions, m[1]).size > 0
        Row(m) == <<m[1], [side |-> DictGet(e.positions, m[1]).side,
                           size |-> DictGet(e.positions, m[1]).size,
                           entry_price |->
                               DictGet(e.positions, m[1]).entry_price]>>
        open == SelectSeq(e.markets, Open)
    IN IF \E i \in 1..Len(open) :
             DictGet(e.positions, open[i][1]).entry_price = 0
       THEN [raised |-> TRUE, dash |-> NoDash]
       ELSE [raised |-> FALSE,
             dash |-> [pushed |-> TRUE, total_pnl |-> e.total_pnl,
                       trade_count |-> e.trade_count,
                       win_count |-> e.win_count,
                       positions |-> [i \in 1..Len(open) |-> Row(open[i])],
                       markets |-> DictKeys(SelectSeq(e.markets, Shown))]]

\* A _record_trade that counts every trade as a win.
RecordEveryTradeAWin(e, cid, pos, exit_price, label, on) ==
    LET pnl == RealizedPnl(pos, exit_price)
        e1 == [e EXCEPT !.total_pnl = RatAdd(e.total_pnl, pnl),
                        !.trade_count = e.trade_count + 1,
                        !.win_count = e.win_count + 1]
        d == UpdateDashboardOnly(e1)
    IN [e1 EXCEPT
          !.sink = Append(e.sink, [action |-> label, side |-> pos.side,
                                   cid |-> cid, size |-> pos.size,
                                   price |-> exit_price, pnl |-> pnl,
                                   on |-> on, dash |-> d.dash]),
          !.raised = d.raised]

\* _record_trade: the totals, emit_trade, then _update_dashboard_only.  The
\* event put on the trade sink also notes the direction of the strategy
\* action it answers (on; "none" for a forced close) and the snapshot that
\* was pushed to the dashboard sink after it (dash).
RecordTrade(e, cid, pos, exit_price, label, on) ==
    LET pnl == RealizedPnl(pos, exit_price)
        e1 == [e EXCEPT !.total_pnl = RatAdd(e.total_pnl, pnl),
                        !.trade_count = e.trade_count + 1,
                        !.win_count = IF RatPositive(pnl) THEN e.win_count + 1
                                      ELSE e.win_count]
        d == UpdateDashboardOnly(e1)
    IN [e1 EXCEPT
          !.sink = Append(e.sink, [action |-> label, side |-> pos.side,
                                   cid |-> cid, size |-> pos.size,
                                   price |-> exit_price, pnl |-> pnl,
                                   on |-> on, dash |-> d.dash]),
          !.raised = d.raised]

\* _record_trade, then pos.size = 0; pos.side = None when it returned.
RecordAndClose(e, cid, pos, exit_price, label, on) ==
    CHOOSE out \in
      {IF r.raised THEN r
       ELSE [r EXCEPT !.positions = DictPut(r.positions, cid,
                                      [pos EXCEPT !.size = 0, !.side = "NONE"])] :
         r \in {RecordTrade(e, cid, pos, exit_price, label, on)}} : TRUE

HoldAlwaysElapsed(pos, t) == TRUE

\* A hold of half the length.
HoldElapsedHalfway(pos, t) == ~(2 * (t - pos.entry_time) < HOLD_SECONDS)

\* not (hold_duration < 30)
HoldElapsed(pos, t) == ~(t - pos.entry_time < HOLD_SECONDS)

OpposesAlways(action, pos) == TRUE

\* (action.is_sell and pos.side == "UP") or (action.is_buy and pos.side == "DOWN")
Opposes(action, pos) ==
    \/ is_sell(action) /\ pos.side = "UP"
    \/ is_buy(action) /\ pos.side = "DOWN"

MayEnterAlways(pos) == TRUE

\* if pos.size == 0:
MayEnter(pos) == pos.size = 0

EntrySideSwapped(action, pos) ==
    IF is_buy(action) THEN "DOWN" ELSE IF is_sell(action) THEN "UP" ELSE pos.side

\* buy opens UP, sell opens DOWN
EntrySide(action, pos) ==
    IF is_buy(action) THEN "UP" ELSE IF is_sell(action) THEN "DOWN" ELSE pos.side

\* An entry that applies the exit factor: better than the quote.
EntryPriceBelowQuote(action, pos, price) ==
    IF is_buy(action) THEN price * EXIT_FEE
    ELSE IF is_sell(action) THEN (1000 - price) * EXIT_FEE
    ELSE pos.entry_price

\* pos.entry_price = own-side price * FEE
EntryPrice(action, pos, price) ==
    IF is_buy(action) THEN price * FEE
    ELSE IF is_sell(action) THEN (1000 - price) * FEE
    ELSE pos.entry_price

\* execute_action(cid, action, state) with state.prob = price, at time t
ExecuteAction(e, ts, cid, action, price, t) ==
    IF action = HOLD THEN e
    ELSE IF ~DictHas(e.positions, cid) THEN e
    ELSE
      LET pos == DictGet(e.positions, cid)
          trade_amount == (ts * action.size_multiplier) \div 100
          opened == [side |-> EntrySide(action, pos),
                     size |-> trade_amount,
                     entry_price |-> EntryPrice(action, pos, price),
                     entry_time |-> t,
                     entry_prob |-> price]
          enter ==
            IF MayEnter(pos)
            THEN [e EXCEPT
                    !.positions = DictPut(e.positions, cid, opened),
                    !.sink = Append(e.sink,
                        [action |-> IF is_buy(action) THEN "BUY" ELSE "SELL",
                         side |-> opened.side, cid |-> cid,
                         size |-> trade_amount, price |-> opened.entry_price,
                         pnl |-> <<0, 1>>, on |-> action.dir,
                         dash |-> NoDash])]
            ELSE e
      IN IF pos.size > 0
         THEN IF ~HoldElapsed(pos, t) THEN e
              ELSE IF Opposes(action, pos)
                   THEN IF pos.entry_price = 0
                        THEN [e EXCEPT !.raised = TRUE]
                        ELSE RecordAndClose(e, cid, pos,
                                 ExitPrice(pos.side, price, EXIT_FEE),
                                 IF pos.side = "UP" THEN "CLOSE UP"
                                 ELSE "CLOSE DOWN", action.dir)
                   ELSE enter
         ELSE enter

\* close_all_positions(): the positions from index i on, in dict order
RECURSIVE CloseAllFrom(_, _, _)
CloseAllFrom(e, i, t) ==
    IF i > Len(e.positions) \/ e.raised THEN e
    ELSE
      LET cid == e.positions[i][1]
          pos == e.positions[i][2]
      IN IF pos.size > 0 /\ DictHas(e.states, cid)
         THEN IF pos.entry_price = 0
              THEN [e EXCEPT !.raised = TRUE]
              ELSE CHOOSE r \in
                     {CloseAllFrom(e1, i + 1, t) :
                        e1 \in {RecordAndClose(e, cid, pos,
                                   ExitPrice(pos.side, DictGet(e.states, cid).prob,
                                             FORCE_EXIT_FEE),
                                   IF pos.side = "UP" THEN "FORCE CLOSE UP"
                                   ELSE "FORCE CLOSE DOWN", "none")}} : TRUE
         ELSE CloseAllFrom(e, i + 1, t)

CloseAllPositions(e, t) == CloseAllFrom(e, 1, t)

\* A buffer that, once full, drops the new observation.
AppendHistoryKeepOldest(h, mid) ==
    IF Len(h) >= HISTORY_MAX THEN h ELSE Append(h, mid)

\* state.prob_history.append(mid); keep the last HISTORY_MAX
AppendHistory(h, mid) ==
    LET h1 == Append(h, mid)
    IN IF Len(h1) > HISTORY_MAX
       THEN SubSeq(h1, Len(h1) - HISTORY_MAX + 1, Len(h1)) ELSE h1

\* The market state after the tick read the UP book of the market.
ReadBook(st, f, cid) ==
    IF HasOrderbook(f, cid, "UP") /\ Truthy(mid_price(GetOrderbook(f, cid, "UP")))
    THEN [st EXCEPT !.prob = mid_price(GetOrderbook(f, cid, "UP")),
                    !.prob_history =
                        AppendHistory(st.prob_history,
                                      mid_price(GetOrderbook(f, cid, "UP")))]
    ELSE st

\* The body of decision_loop's "for cid, m in self.markets.items()" for one
\* market; action is what strategy.act(state) returns.
ProcessMarket(e, ts, cid, action, f, t) ==
    IF ~DictHas(e.states, cid) THEN e
    ELSE
      LET st == ReadBook(DictGet(e.states, cid), f, cid)
          e1 == [e EXCEPT !.states = DictPut(e.states, cid, st)]
      IN IF /\ DictHas(e1.positions, cid)
            /\ DictGet(e1.positions, cid).size > 0
            /\ DictGet(e1.positions, cid).entry_price = 0
         THEN [e1 EXCEPT !.raised = TRUE]    \* shares = pos.size / pos.entry_price
         ELSE IF action # HOLD
              THEN ExecuteAction(e1, ts, cid, action, st.prob, t)
              ELSE e1

\* The loop over self.markets in dict order, left at the first exception.
\* (Binding an intermediate record through a singleton set makes TLC
\* evaluate it once; it is used this way below as well.)
RECURSIVE ProcessMarkets(_, _, _, _, _, _)
ProcessMarkets(e, ts, mkts, acts, f, t) ==
    IF mkts = <<>> \/ e.raised THEN e
    ELSE CHOOSE r \in
            {ProcessMarkets(e1, ts, Tail(mkts), acts, f, t) :
                e1 \in {ProcessMarket(e, ts, Head(mkts)[1],
                                      DictGet(acts, Head(mkts)[1]), f, t)}} : TRUE

\* refresh_markets() after markets.clear() and states.clear(): the loop over
\* the discovered markets, then clear_stale.  r is
\* [e, markets, feed, op]; op is the latest call made on the streamer.
RECURSIVE RefreshLoop(_, _, _)
RefreshLoop(r, found, t) ==
    IF found = <<>> THEN r
    ELSE
      LET m == Head(found)
      IN IF m.end_time - t < MIN_LIFE_SECONDS
         THEN RefreshLoop(r, Tail(found), t)
         ELSE CHOOSE out \in
                {RefreshLoop(r1, Tail(found), t) : r1 \in {
                  [e |-> [r.e EXCEPT
                            !.states = DictPut(r.e.states, m.cid,
                                  [prob |-> m.price_up, prob_history |-> <<>>]),
                            !.positions =
                                IF DictHas(r.e.positions, m.cid) THEN r.e.positions
                                ELSE DictPut(r.e.positions, m.cid, FlatPosition)],
                   markets |-> DictPut(r.markets, m.cid,
                                  [token_up |-> m.token_up,
                                   token_down |-> m.token_down,
                                   end_time |-> m.end_time]),
                   feed |-> SubscribeOp(r.feed, m.cid, m.token_up, m.token_down),
                   op |-> SubscribeCall(r.feed, m.cid, m.token_up, m.token_down)]}}
                : TRUE

\* refresh_markets() once get_15m_markets returned found, at time t
RefreshMarkets(e, f, found, t) ==
    CHOOSE out \in
      {IF r.markets = <<>> THEN r
       ELSE [r EXCEPT !.feed = ClearStaleOp(r.feed, DictKeySet(r.markets)),
                      !.op = ClearStaleCall(DictKeySet(r.markets))] :
         r \in {RefreshLoop([e |-> [e EXCEPT !.states = <<>>],
                             markets |-> <<>>, feed |-> f, op |-> NoFeedOp],
                            found, t)}} : TRUE

\* A finally block that does not close the positions.
FinallyWithoutClose(e, t) == [e EXCEPT !.raised = FALSE]

\* The finally block of run(): close_all_positions, then the final stats.
Finally(e, t) == CloseAllPositions([e EXCEPT !.raised = FALSE], t)

SetEngine(e) ==
    /\ positions' = e.positions
    /\ states' = e.states
    /\ total_pnl' = e.total_pnl
    /\ trade_count' = e.trade_count
    /\ win_count' = e.win_count
    /\ trade_sink' = e.sink

----------------------------------------------------------------------------
(* What the collaborators hand to the engine *)

TradeSizes == {0, 1000}

\* The discovery collaborator's markets: each has its own two tokens.
MarketTokens(cid) ==
    IF cid = CidA THEN <<"t1", "t2">> ELSE <<"t3", "t4">>

Lifetimes == {TimeStep, 2 * TimeStep, 5 * TimeStep}
DiscoveryProbs == {500}

Discovered(cid, life, p, t) ==
    [cid |-> cid, token_up |-> MarketTokens(cid)[1],
     token_down |-> MarketTokens(cid)[2], end_time |-> t + life, price_up |-> p]

DiscoveryResults(t) ==
    {<<>>}
    \cup {<<Discovered(c, l, p, t)>> :
            c \in Cids, l \in Lifetimes, p \in DiscoveryProbs}
    \cup {pair \in {<<Discovered(c, l1, p1, t), Discovered(d, l2, p2, t)>> :
                        c \in Cids, d \in Cids, l1 \in Lifetimes,
                        l2 \in Lifetimes, p1 \in DiscoveryProbs,
                        p2 \in DiscoveryProbs} :
            pair[1].cid # pair[2].cid}

\* Book messages the engine's runs receive: the UP token of the first
\* market, one bid level at 1.0, no asks.
EngineBookMsgs ==
    { [asset_id |-> tk, bids |-> <<<<p, 1>>>>, asks |-> <<>>] :
        tk \in {"t1"}, p \in {1000} }

----------------------------------------------------------------------------
(* TradingEngine.run and decision_loop as actions *)

\* run(): refresh_markets(), return when there is no market.
RunStart ==
    /\ pc = "init"
    /\ \E ok \in BOOLEAN, found \in DiscoveryResults(now) :
         IF ~ok
         THEN /\ pc' = "crashed"      \* get_15m_markets raised before the try
              /\ UNCHANGED <<feedVars, feed_op, markets, states, positions,
                             total_pnl, trade_count, win_count, trade_sink>>
         ELSE \E r \in {RefreshMarkets(CurrentEngine, CurrentFeed, found, now)} :
                 /\ SetEngine(r.e)
                 /\ SetFeed(r.feed)
                 /\ feed_op' = r.op
                 /\ markets' = r.markets
                 /\ pc' = IF r.markets = <<>> THEN "returned" ELSE "running"
    /\ UNCHANGED <<trade_size, now, loopVars, streamVars, dashVars>>

\* decision_loop's expiry sweep at time t: the markets that stay.
Live(t) ==
    LET NotExpired(m) == ~(m[2].end_time <= t) IN SelectSeq(markets, NotExpired)

\* What strategy.act returns for each of n markets.
ActionChoices(n) == [1..n -> StrategyActions]

\* One pass of decision_loop with a market left after the expiry sweep;
\* print_status or _update_dashboard_only ends it.
TickTrade ==
    /\ pc = "running"
    /\ trade_count < MaxTrades
    /\ now + TimeStep <= MaxTime
    /\ now' = now + TimeStep
    /\ \E t \in {now + TimeStep} : \E live \in {Live(t)} :
         /\ live # <<>>
         /\ markets' = live
         /\ \E choice \in ActionChoices(Len(live)) :
            \E acts \in {[i \in 1..Len(live) |-> <<live[i][1], choice[i]>>]} :
            \E e0 \in {ProcessMarkets([CurrentEngine EXCEPT !.markets = live],
                                      trade_size, live, acts, CurrentFeed, t)} :
            \E e1 \in {IF e0.raised THEN e0
                       ELSE [e0 EXCEPT !.raised = UpdateDashboardOnly(e0).raised]} :
            \E e2 \in {IF e1.raised THEN Finally(e1, t) ELSE e1} :
               /\ SetEngine(e2)
               /\ pc' = IF ~e1.raised THEN "running"
                        ELSE IF e2.raised THEN "crashed" ELSE "stopped"
    /\ UNCHANGED <<feedVars, feed_op, trade_size, loopVars, streamVars,
                   dashVars>>

\* One pass of decision_loop when every market has expired:
\* close_all_positions(), then refresh_markets(), with no await in between.
TickRefresh ==
    /\ pc = "running"
    /\ loop_at = 0
    /\ trade_count < MaxTrades
    /\ now + TimeStep <= MaxTime
    /\ now' = now + TimeStep
    /\ \E t \in {now + TimeStep} :
         /\ Live(t) = <<>>
         /\ \E ok \in BOOLEAN, found \in DiscoveryResults(t) :
            \E e1 \in {CloseAllPositions([CurrentEngine EXCEPT !.markets = <<>>],
                                         t)} :
              IF e1.raised \/ ~ok
              THEN \E e2 \in {Finally(e1, t)} :
                     /\ SetEngine(e2)
                     /\ markets' = <<>>
                     /\ pc' = IF e2.raised THEN "crashed" ELSE "stopped"
                     /\ UNCHANGED <<feedVars, feed_op>>
              ELSE \E r \in {RefreshMarkets(e1, CurrentFeed, found, t)} :
                     /\ SetEngine(r.e)
                     /\ SetFeed(r.feed)
                     /\ feed_op' = r.op
                     /\ markets' = r.markets
                     /\ pc' = "running"
    /\ UNCHANGED <<trade_size, loopVars, streamVars, dashVars>>

\* The tasks of run() are cancelled while they wait: the finally block runs.
Cancel ==
    /\ pc = "running"
    /\ \E e \in {Finally(CurrentEngine, now)} :
          /\ SetEngine(e)
          /\ pc' = IF e.raised THEN "crashed" ELSE "stopped"
    /\ UNCHANGED <<feedVars, feed_op, trade_size, markets, now, loopVars,
                   streamVars, dashVars>>

----------------------------------------------------------------------------
(* The calls on the OrderbookStreamer, as actions of the feed alone *)

\* The markets subscribe is called with: two markets with their own tokens,
\* and the second market again with a token of the first.
FeedMarkets ==
    { [cid |-> CidA, token_up |-> "t1", token_down |-> "t2"],
      [cid |-> CidB, token_up |-> "t3", token_down |-> "t4"],
      [cid |-> CidB, token_up |-> "t2", token_down |-> "t3"] }

\* Book messages of the feed: levels are <<price, size>>, unsorted.
FeedBookMsgs ==
    { [asset_id |-> t, bids |-> l[1], asks |-> l[2]] :
        t \in {"t1", "t2", "t3"},
        l \in { <<<<>>, <<>>>>,
                <<<<<<400, 1>>, <<600, 2>>>>, <<<<800, 1>>>>>> } }

engineAndSinks == <<engineVars, loopVars, trade_sink>>

Subscribe(cid, token_up, token_down) ==
    /\ Len(pending_subs) + 2 <= MaxPending
    /\ SetFeed(SubscribeOp(CurrentFeed, cid, token_up, token_down))
    /\ feed_op' = SubscribeCall(CurrentFeed, cid, token_up, token_down)
    /\ UNCHANGED <<engineAndSinks, now, streamVars, dashVars>>

ClearStale(active) ==
    /\ SetFeed(ClearStaleOp(CurrentFeed, active))
    /\ feed_op' = ClearStaleCall(active)
    /\ UNCHANGED <<engineAndSinks, now, streamVars, dashVars>>

HandleBookUpdate(msg) ==
    /\ SetFeed(HandleBookUpdateOp(CurrentFeed, msg, now))
    /\ feed_op' = BookUpdateCall(msg)
    /\ UNCHANGED <<engineAndSinks, now, streamVars, dashVars>>

\* Time passes between two calls.
ClockTick ==
    /\ now + TimeStep <= MaxTime
    /\ now' = now + TimeStep
    /\ UNCHANGED <<feedVars, engineAndSinks, feed_op, streamVars, dashVars>>

FeedInit ==
    /\ orderbooks = <<>>
    /\ subscriptions = <<>>
    /\ pending_subs = <<>>
    /\ force_reconnect = FALSE
    /\ feed_op = NoFeedOp

EngineNew ==
    /\ markets = <<>>
    /\ states = <<>>
    /\ positions = <<>>
    /\ total_pnl = <<0, 1>>
    /\ trade_count = 0
    /\ win_count = 0
    /\ pc = "init"
    /\ loop_at = 0
    /\ pass_books = <<>>
    /\ dashboard_state = [f \in Range(DashFields) |-> 0]
    /\ update_call = [call |-> 0, at |-> 0]
    /\ emit_read = <<>>
    /\ state_update = <<>>
    /\ trade_sink = <<>>

\* stream() has not been started.
StreamNew ==
    /\ running = FALSE
    /\ spc = "start"
    /\ conn_init = 0
    /\ queued_live = 0
    /\ last_close = "none"
    /\ stream_ev = NoEvent("none")

InitFeed == FeedInit /\ EngineNew /\ StreamNew /\ trade_size = 1000 /\ now = 0

NextFeed ==
    \/ \E m \in FeedMarkets : Subscribe(m.cid, m.token_up, m.token_down)
    \/ \E active \in SUBSET Cids : ClearStale(active)
    \/ \E msg \in FeedBookMsgs : HandleBookUpdate(msg)
    \/ ClockTick

SpecFeed == InitFeed /\ [][NextFeed]_vars

InitEngine ==
    FeedInit /\ EngineNew /\ StreamNew /\ trade_size \in TradeSizes /\ now = 0

NextEngine ==
    \/ RunStart
    \/ TickTrade
    \/ TickRefresh
    \/ Cancel
    \/ \E msg \in EngineBookMsgs : HandleBookUpdate(msg)

SpecEngine == InitEngine /\ [][NextEngine]_vars

----------------------------------------------------------------------------
(* The dashboard module: the engine's thread writes dashboard_state, the   *)
(* state_emitter thread reads it; there is no lock, and the interpreter    *)
(* can switch threads between any two attribute accesses.  A field's value *)
(* is the number of the update_dashboard_state call that wrote it (0: the  *)
(* value DashboardState.__init__ gave it).                                 *)

\* update_dashboard_state(...): the engine's thread assigns the next field
\* of its call, in the order of the function body; a new call begins when
\* none is in progress.
UpdateDashboardState ==
    /\ update_call.at > 0 \/ update_call.call < MaxUpdates
    /\ \E c \in {IF update_call.at = 0
                  THEN [call |-> update_call.call + 1, at |-> 1]
                  ELSE update_call} :
         /\ dashboard_state' =
              [dashboard_state EXCEPT ![DashFields[c.at]] = c.call]
         /\ update_call' = [c EXCEPT !.at = IF c.at = Len(DashFields) THEN 0
                                            ELSE c.at + 1]
    /\ UNCHANGED <<emit_read, state_update>>
    /\ UNCHANGED <<feedVars, engineVars, loopVars, obsVars, now, streamVars>>

\* state_emitter -> emit_state(): the emitter thread reads the next field
\* of dashboard_state while it builds the message, in the order of the dict
\* literal, and emits state_update once it has read them all.
EmitState ==
    /\ \E read \in {Append(emit_read,
                            dashboard_state[DashFields[Len(emit_read) + 1]])} :
         IF Len(read) = Len(DashFields)
         THEN /\ state_update' = read
              /\ emit_read' = <<>>
         ELSE /\ emit_read' = read
              /\ UNCHANGED state_update
    /\ UNCHANGED <<dashboard_state, update_call>>
    /\ UNCHANGED <<feedVars, engineVars, loopVars, obsVars, now, streamVars>>

NextDash == UpdateDashboardState \/ EmitState

SpecDash == InitFeed /\ [][NextDash]_vars

----------------------------------------------------------------------------
(* decision_loop after many passes: the prob_history window                *)

\* run() found one market and n passes have read its book since, the i-th
\* reading 0.4 + i / 1000; n is 0, or the window is full or nearly so.
InitHistory ==
    /\ StreamNew
    /\ trade_size = 1000
    /\ now = 0
    /\ pc = "running"
    /\ loop_at = 0
    /\ pass_books = <<>>
    /\ dashboard_state = [f \in Range(DashFields) |-> 0]
    /\ update_call = [call |-> 0, at |-> 0]
    /\ emit_read = <<>>
    /\ state_update = <<>>
    /\ total_pnl = <<0, 1>>
    /\ trade_count = 0
    /\ win_count = 0
    /\ trade_sink = <<>>
    /\ \E r \in {RefreshMarkets(
                    [positions |-> <<>>, states |-> <<>>, markets |-> <<>>,
                     total_pnl |-> <<0, 1>>, trade_count |-> 0,
                     win_count |-> 0, sink |-> <<>>, raised |-> FALSE],
                    Feed(<<>>, <<>>, <<>>, FALSE),
                    <<Discovered(CidA, 5 * TimeStep, 500, 0)>>, 0)} :
         /\ orderbooks = r.feed.orderbooks
         /\ subscriptions = r.feed.subscriptions
         /\ pending_subs = r.feed.pending_subs
         /\ force_reconnect = r.feed.force_reconnect
         /\ feed_op = r.op
         /\ markets = r.markets
         /\ positions = r.e.positions
         /\ \E n \in {0, HISTORY_MAX - 2, HISTORY_MAX - 1, HISTORY_MAX} :
              states = DictPut(r.e.states, CidA,
                               [prob |-> IF n = 0 THEN 500 ELSE 400 + n,
                                prob_history |-> [i \in 1..n |-> 400 + i]])

NextHistory ==
    \/ TickTrade
    \/ \E msg \in EngineBookMsgs \cup {m \in FeedBookMsgs : m.asset_id = "t1"} :
         HandleBookUpdate(msg)

SpecHistory == InitHistory /\ [][NextHistory]_vars

----------------------------------------------------------------------------
(* decision_loop market by market, next to the feed task of run()          *)

\* A scheduler that runs the feed task at any point of a pass.
LoopSuspendedOrNot == TRUE

\* decision_loop is suspended at await asyncio.sleep: the only points at
\* which the event loop runs another task of asyncio.gather.
LoopSuspended == loop_at = 0

\* stream() received one book message and handled it.
FeedTaskStep(msg) == LoopSuspended /\ HandleBookUpdate(msg)

\* A pass begins: the sleep returned, now is read, the expiry sweep leaves a
\* market.
PassBegin ==
    /\ pc = "running"
    /\ loop_at = 0
    /\ trade_count < MaxTrades
    /\ now + TimeStep <= MaxTime
    /\ now' = now + TimeStep
    /\ Live(now + TimeStep) # <<>>
    /\ markets' = Live(now + TimeStep)
    /\ SetEngine(CurrentEngine)
    /\ loop_at' = 1
    /\ pass_books' = orderbooks
    /\ UNCHANGED <<feedVars, feed_op, trade_size, pc, streamVars, dashVars>>

\* The loop body for the market the pass is at; an exception leaves
\* decision_loop and run()'s finally block runs.
PassMarket ==
    /\ pc = "running"
    /\ loop_at \in 1..Len(markets)
    /\ \E action \in StrategyActions :
       \E e1 \in {ProcessMarket(CurrentEngine, trade_size,
                                 markets[loop_at][1], action, CurrentFeed,
                                 now)} :
       \E e2 \in {IF e1.raised THEN Finally(e1, now) ELSE e1} :
          /\ SetEngine(e2)
          /\ pc' = IF ~e1.raised THEN "running"
                   ELSE IF e2.raised THEN "crashed" ELSE "stopped"
          /\ loop_at' = IF e1.raised THEN 0 ELSE loop_at + 1
    /\ UNCHANGED <<feedVars, feed_op, trade_size, markets, now, pass_books,
                   streamVars, dashVars>>

\* The end of a pass: print_status or _update_dashboard_only, then the
\* loop is back at its sleep.
PassEnd ==
    /\ pc = "running"
    /\ loop_at = Len(markets) + 1
    /\ \E d \in {UpdateDashboardOnly(CurrentEngine)} :
       \E e2 \in {IF d.raised
                   THEN Finally([CurrentEngine EXCEPT !.raised = TRUE], now)
                   ELSE CurrentEngine} :
          /\ SetEngine(e2)
          /\ pc' = IF ~d.raised THEN "running"
                   ELSE IF e2.raised THEN "crashed" ELSE "stopped"
    /\ loop_at' = 0
    /\ UNCHANGED <<feedVars, feed_op, trade_size, markets, now, pass_books,
                   streamVars, dashVars>>

NextLoop ==
    \/ RunStart
    \/ PassBegin
    \/ PassMarket
    \/ PassEnd
    \/ TickRefresh
    \/ \E msg \in EngineBookMsgs : FeedTaskStep(msg)

SpecLoop == InitFeed /\ [][NextLoop]_vars

----------------------------------------------------------------------------
(* stream() and its caller as actions *)

\* The markets the caller subscribes: each has its own two tokens.
StreamMarkets ==
    { [cid |-> CidA, token_up |-> "t1", token_down |-> "t2"],
      [cid |-> CidB, token_up |-> "t3", token_down |-> "t4"] }

\* The market a token of StreamMarkets belongs to.
TokenCid(token) == (CHOOSE m \in StreamMarkets :
                        token \in {m.token_up, m.token_down}).cid

GoodItem == [asset_id |-> "t1", bids |-> <<<<600, 1>>>>, asks |-> <<>>]
BadItem == [asset_id |-> "t1", bids |-> <<<<NoneVal, 1>>>>, asks |-> <<>>]

\* Inbound messages: text that is no JSON, a book object, a book object with
\* a level that has no numeric price, and a snapshot array whose second
\* element is that object.
StreamMsgs ==
    { [type |-> "invalid"],
      [type |-> "dict", item |-> GoodItem],
      [type |-> "dict", item |-> BadItem],
      [type |-> "list", items |-> <<GoodItem, BadItem>>] }

engineClock == <<engineVars, loopVars, dashVars, trade_sink, now>>

\* A block of stream() ran to its next await: r is its StreamBlock.
ApplyBlock(r, step, inbound, callbacks) ==
    /\ SetFeed(r.feed)
    /\ spc' = r.spc
    /\ stream_ev' = StreamEvent(step, r.kind, r.tokens, inbound, callbacks)
    /\ queued_live' = IF r.spc \in Connected /\ r.kind = "none"
                      THEN queued_live ELSE 0
    /\ last_close' = IF r.spc # "closing" THEN last_close
                     ELSE IF r.forced THEN "forced" ELSE "stopped"

\* An exception left the try of the outer loop; f is the feed it leaves.
Raise(f, step, inbound, callbacks) ==
    /\ SetFeed(f)
    /\ spc' = AfterException(f, running)
    /\ stream_ev' = StreamEvent(step, "none", <<>>, inbound, callbacks)
    /\ conn_init' = 0
    /\ queued_live' = 0
    /\ last_close' = "error"
    /\ UNCHANGED <<running, feed_op, engineClock>>

\* stream() is started: self.running = True, then the head of the loop.
StreamStart ==
    /\ spc = "start"
    /\ running' = TRUE
    /\ spc' = TopLogic(CurrentFeed, TRUE)
    /\ stream_ev' = NoEvent("start")
    /\ UNCHANGED <<feedVars, feed_op, engineClock, conn_init, queued_live,
                   last_close>>

\* asyncio.sleep(0.5) returned.
Wake ==
    /\ spc = "sleeping"
    /\ spc' = TopLogic(CurrentFeed, running)
    /\ stream_ev' = NoEvent("wake")
    /\ UNCHANGED <<feedVars, feed_op, engineClock, running, conn_init,
                   queued_live, last_close>>

\* websockets.connect returned a connection.
ConnectOk ==
    /\ spc = "connecting"
    /\ \E r \in {OnConnected(CurrentFeed, running)} :
          /\ ApplyBlock(r, "connect_ok", NoMsg, 0)
          /\ conn_init' = IF r.kind = "initial" THEN 1 ELSE 0
    /\ UNCHANGED <<running, feed_op, engineClock>>

ConnectFail == spc = "connecting" /\ Raise(CurrentFeed, "connect_fail", NoMsg, 0)

\* The send of the initial subscription returned.
SendOk ==
    /\ spc = "sending"
    /\ \E r \in {InnerLogic(CurrentFeed, running)} :
          /\ ApplyBlock(r, "send_ok", NoMsg, 0)
          /\ conn_init' = IF r.spc \in Connected THEN conn_init ELSE 0
    /\ UNCHANGED <<running, feed_op, engineClock>>

SendFail == spc = "sending" /\ Raise(CurrentFeed, "send_fail", NoMsg, 0)

\* The send of an incremental subscription returned: recv is awaited next.
FlushOk ==
    /\ spc = "flushing"
    /\ spc' = "receiving"
    /\ stream_ev' = NoEvent("flush_ok")
    /\ UNCHANGED <<feedVars, feed_op, engineClock, running, conn_init,
                   queued_live, last_close>>

FlushFail == spc = "flushing" /\ Raise(CurrentFeed, "flush_fail", NoMsg, 0)

\* wait_for(ws.recv(), 0.1) timed out.
RecvTimeout ==
    /\ spc = "receiving"
    /\ \E r \in {InnerLogic(CurrentFeed, running)} :
          /\ ApplyBlock(r, "timeout", NoMsg, 0)
          /\ conn_init' = IF r.spc \in Connected THEN conn_init ELSE 0
    /\ UNCHANGED <<running, feed_op, engineClock>>

\* ws.recv() returned msg.
RecvMsg(msg) ==
    /\ spc = "receiving"
    /\ \E h \in {HandleInbound(CurrentFeed, msg, now)} :
          IF h.raised
          THEN Raise(h.feed, "message_error", msg, h.callbacks)
          ELSE /\ \E r \in {InnerLogic(h.feed, running)} :
                    /\ ApplyBlock(r, "message", msg, h.callbacks)
                    /\ conn_init' = IF r.spc \in Connected THEN conn_init ELSE 0
               /\ UNCHANGED <<running, feed_op, engineClock>>

RecvFail == spc = "receiving" /\ Raise(CurrentFeed, "recv_fail", NoMsg, 0)

\* The connection is closed on leaving the async with: the head of the loop.
CloseDone ==
    /\ spc = "closing"
    /\ spc' = TopLogic(CurrentFeed, running)
    /\ stream_ev' = NoEvent("closed")
    /\ UNCHANGED <<feedVars, feed_op, engineClock, running, conn_init,
                   queued_live, last_close>>

\* asyncio.sleep(1) returned.
BackoffDone ==
    /\ spc = "backoff"
    /\ spc' = TopLogic(CurrentFeed, running)
    /\ last_close' = "backoff"
    /\ stream_ev' = NoEvent("backoff_done")
    /\ UNCHANGED <<feedVars, feed_op, engineClock, running, conn_init,
                   queued_live>>

StreamStep ==
    \/ StreamStart \/ Wake \/ ConnectOk \/ ConnectFail \/ SendOk \/ SendFail
    \/ FlushOk \/ FlushFail \/ RecvTimeout \/ RecvFail \/ CloseDone
    \/ BackoffDone
    \/ \E msg \in StreamMsgs : RecvMsg(msg)

\* The caller's subscribe, made while stream() waits at an await.
StreamSubscribe(cid, token_up, token_down) ==
    /\ Len(pending_subs) + 2 <= MaxPending
    /\ SetFeed(SubscribeOp(CurrentFeed, cid, token_up, token_down))
    /\ feed_op' = SubscribeCall(CurrentFeed, cid, token_up, token_down)
    /\ queued_live' = IF spc \in Connected
                      THEN queued_live + Len(pending_subs') - Len(pending_subs)
                      ELSE 0
    /\ stream_ev' = NoEvent("subscribe")
    /\ UNCHANGED <<engineClock, running, spc, conn_init, last_close>>

StreamClearStale(active) ==
    /\ SetFeed(ClearStaleOp(CurrentFeed, active))
    /\ feed_op' = ClearStaleCall(active)
    /\ stream_ev' = NoEvent("clear_stale")
    /\ UNCHANGED <<engineClock, running, spc, conn_init, queued_live,
                   last_close>>

\* stop(), at any time: also before the task of stream() first ran and
\* after it returned.
StreamStop ==
    /\ running' = FALSE
    /\ stream_ev' = NoEvent("stop")
    /\ UNCHANGED <<feedVars, feed_op, engineClock, spc, conn_init,
                   queued_live, last_close>>

InitStream == FeedInit /\ EngineNew /\ StreamNew /\ trade_size = 1000 /\ now = 0

NextStream ==
    \/ StreamStep
    \/ \E m \in StreamMarkets : StreamSubscribe(m.cid, m.token_up, m.token_down)
    \/ \E active \in SUBSET Cids : StreamClearStale(active)
    \/ StreamStop

SpecStream == InitStream /\ [][NextStream]_vars

\* The event loop runs the stream task whenever it can take a step.
SpecStreamFair == SpecStream /\ WF_vars(StreamStep)

----------------------------------------------------------------------------
(* _handle_book_update on the books of one subscribed market *)

\* Levels with two equal prices, not in order.
TiedLevels == <<<<500, 1>>, <<600, 2>>, <<500, 3>>>>

\* More levels than a book keeps, not in order, the first and the last of
\* them at the same price.
LongLevels ==
    [i \in 1..MaxLevels |-> <<100 + 10 * ((i * 7) % (MaxLevels - 1)), i>>]

\* One level at price 0.
ZeroLevels == <<<<0, 1>>>>

BookLevelLists == {<<>>, TiedLevels, LongLevels, ZeroLevels}

BookMsgs ==
    { [asset_id |-> t, bids |-> b, asks |-> a] :
        t \in {"t1", "t2"}, b \in BookLevelLists, a \in BookLevelLists }

\* Three bid levels and two ask levels, not in order.
ScenarioBids == <<<<400, 1>>, <<600, 2>>, <<500, 3>>>>
ScenarioAsks == <<<<800, 1>>, <<700, 2>>>>

\* The book objects of a snapshot array: for the two subscribed tokens and
\* for a token nobody subscribed.
SnapshotItems ==
    { [asset_id |-> t, bids |-> l[1], asks |-> l[2]] :
        t \in {"t1", "t2", "t3"},
        l \in { <<ScenarioBids, ScenarioAsks>>, <<ZeroLevels, ScenarioAsks>> } }

SnapshotArrays == {<<x, y>> : x \in SnapshotItems, y \in SnapshotItems}

SnapshotCall(items, h) ==
    [op |-> "snapshot", items |-> items, calls |-> h.calls,
     raised |-> h.raised]

\* stream() received the array items and handled its elements in order.
HandleSnapshot(items) ==
    /\ \E h \in {HandleItems(Handling(CurrentFeed), items, now)} :
          /\ SetFeed(h.feed)
          /\ feed_op' = SnapshotCall(items, h)
    /\ UNCHANGED <<engineAndSinks, now, streamVars, dashVars>>

\* Objects that carry only price_changes: for a subscribed token, for both
\* tokens of the market and for a token nobody subscribed.
PriceChangeMsgs ==
    { [type |-> "price_changes", changes |-> c] :
        c \in { <<[asset_id |-> "t1", price |-> 500]>>,
                <<[asset_id |-> "t2", price |-> 500],
                  [asset_id |-> "t1", price |-> 400]>>,
                <<[asset_id |-> "t3", price |-> 500]>> } }

\* stream() received an object with price_changes and no bids or asks.
HandlePriceChange(msg) ==
    /\ \E h \in {HandleInbound(CurrentFeed, msg, now)} :
          /\ SetFeed(h.feed)
          /\ feed_op' = [op |-> "price_change", changes |-> msg.changes,
                         calls |-> h.calls, raised |-> h.raised]
    /\ UNCHANGED <<engineAndSinks, now, streamVars, dashVars>>

InitBook == InitFeed

NextBook ==
    \/ Subscribe(CidA, "t1", "t2")
    \/ \E msg \in BookMsgs : HandleBookUpdate(msg)
    \/ \E items \in SnapshotArrays : HandleSnapshot(items)
    \/ \E msg \in PriceChangeMsgs : HandlePriceChange(msg)

SpecBook == InitBook /\ [][NextBook]_vars

----------------------------------------------------------------------------
(* Claims about the OrderbookStreamer, checked under SpecFeed *)

SubCount(token) ==
    Cardinality({i \in 1..Len(subscriptions) : subscriptions[i][2] = token})
PendingCount(pend, token) ==
    Cardinality({i \in 1..Len(pend) : pend[i] = token})
BooksOf(cid) ==
    {i \in 1..Len(orderbooks) : orderbooks[i][2].condition_id = cid}

C8_AfterSecondCall ==
    (feed_op.op = "subscribe" /\ feed_op.again) =>
        /\ SubCount(feed_op.token_up) = 1
        /\ SubCount(feed_op.token_down) = 1
        /\ Cardinality(BooksOf(feed_op.cid)) = 2
        /\ DictHas(orderbooks, BookKey(feed_op.cid, "UP"))
        /\ DictHas(orderbooks, BookKey(feed_op.cid, "DOWN"))

C8_SecondCallStep ==
    (feed_op'.op = "subscribe" /\ feed_op'.again) =>
        /\ subscriptions' = subscriptions
        /\ pending_subs' = pending_subs

\* C8: a second subscribe call with the same market id and the same two
\* token ids leaves exactly one subscription record per token, appends
\* nothing to the pending queue, and leaves exactly two OrderbookState
\* records for the market.
C8_SubscribeIdempotent == [](C8_AfterSecondCall) /\ [][C8_SecondCallStep]_vars

\* C8 witness: a second identical call has been made for a market whose
\* subscription records and two books exist.
C8_Witness ==
    /\ feed_op.op = "subscribe"
    /\ feed_op.again
    /\ Len(subscriptions) >= 2
    /\ Cardinality(BooksOf(feed_op.cid)) = 2

\* C9 (as claimed): a subscribe call whose two tokens are already subscribed
\* for that market changes neither the subscription records, nor the pending
\* queue, nor the market's existing OrderbookState records with the bids,
\* asks and last-update time they hold.
C9_SubscribeNoOp ==
    [][ (feed_op'.op = "subscribe" /\ feed_op'.again) =>
            /\ subscriptions' = subscriptions
            /\ pending_subs' = pending_subs
            /\ \A i \in BooksOf(feed_op'.cid) :
                  /\ DictHas(orderbooks', orderbooks[i][1])
                  /\ DictGet(orderbooks', orderbooks[i][1]) = orderbooks[i][2]
      ]_vars

C10_AfterClearStale ==
    feed_op.op = "clear_stale" =>
        /\ \A i \in 1..Len(orderbooks) :
              orderbooks[i][2].condition_id \in feed_op.active
        /\ \A i \in 1..Len(subscriptions) :
              subscriptions[i][1] \in feed_op.active

C10_ClearStaleStep ==
    feed_op'.op = "clear_stale" =>
        LET InActiveBook(e) == e[2].condition_id \in feed_op'.active
            InActiveSub(r) == r[1] \in feed_op'.active
        IN /\ orderbooks' = SelectSeq(orderbooks, InActiveBook)
           /\ subscriptions' = SelectSeq(subscriptions, InActiveSub)

\* C10: after clear_stale(active) no OrderbookState record and no
\* subscription record belongs to a market id outside active, and the
\* records of the market ids inside active are exactly as they were.
C10_ClearStaleExact == [](C10_AfterClearStale) /\ [][C10_ClearStaleStep]_vars

\* C10 witness: clear_stale removed a market (the reconnect flag is set) and
\* kept a record of an active market that holds book data.
C10_Witness ==
    /\ feed_op.op = "clear_stale"
    /\ force_reconnect
    /\ \E i \in 1..Len(orderbooks) : orderbooks[i][2].bids # <<>>
    /\ subscriptions # <<>>

----------------------------------------------------------------------------
(* Claims about the TradingEngine, checked under SpecEngine *)

StrategyCloses == {"CLOSE UP", "CLOSE DOWN"}
ForcedCloses == {"FORCE CLOSE UP", "FORCE CLOSE DOWN"}
Entries == {"BUY", "SELL"}

PosOf(cid) == DictGet(positions, cid)
IsOpen(ps, cid) == DictHas(ps, cid) /\ DictGet(ps, cid).size > 0
Opens(cid) == ~IsOpen(positions, cid) /\ IsOpen(positions', cid)
Closes(cid) == IsOpen(positions, cid) /\ ~IsOpen(positions', cid)
SinkEvents(sink, cid, labels) ==
    {i \in 1..Len(sink) : sink[i].cid = cid /\ sink[i].action \in labels}

C1_OneRecordPerMarket ==
    \A i, j \in 1..Len(positions) : positions[i][1] = positions[j][1] => i = j

C1_OpenOnlyClosed ==
    \A cid \in Cids :
        IsOpen(positions, cid) =>
            /\ DictHas(positions', cid)
            /\ \/ DictGet(positions', cid) = PosOf(cid)
               \/ DictGet(positions', cid) =
                      [PosOf(cid) EXCEPT !.size = 0, !.side = "NONE"]

\* C1: there is one Position per market, and while it is open (size > 0) no
\* pass of the engine, whatever the strategy's action, changes its side,
\* size, entry_price or entry_time other than by closing it (size 0, side
\* None); entry is evaluated only when the position is flat.
C1_OnePositionPerMarket == [](C1_OneRecordPerMarket) /\ [][C1_OpenOnlyClosed]_vars

\* C1 witness: a position is still open, unchanged, after its market was
\* processed on ticks past the minimum hold.
C1_Witness ==
    \E cid \in Cids :
        /\ pc = "running"
        /\ IsOpen(positions, cid)
        /\ DictHas(markets, cid)
        /\ now - PosOf(cid).entry_time >= HOLD_SECONDS

\* C2 (as claimed): in every reachable state, for every market's Position,
\* size > 0 holds if and only if side is not None, whatever the trade size.
C2_SizeIffSide ==
    \A i \in 1..Len(positions) :
        (positions[i][2].size > 0) <=> (positions[i][2].side # "NONE")

\* C3 (as claimed): after a position of a market was closed, here by the
\* strategy, no new position is opened for that market until a fixed window
\* has elapsed since the exit.  The events on the sink are those of the
\* latest pass, made at time now; the window is taken to be the engine's one
\* time window, HOLD_SECONDS.
C3_CooldownAfterExit ==
    [][ \A cid \in Cids :
          (SinkEvents(trade_sink, cid, StrategyCloses) # {} /\ Opens(cid))
          => now' - now >= HOLD_SECONDS ]_vars

\* C3 (amended): the fixed window runs from the entry, and it gates the
\* strategy's close: a position is closed by a strategy action only when at
\* least HOLD_SECONDS have elapsed since its entry_time.
C3_MinimumHoldBeforeClose ==
    [][ trade_count' > trade_count =>
          \A i \in 1..Len(trade_sink') :
              trade_sink'[i].action \in StrategyCloses =>
                  now' - PosOf(trade_sink'[i].cid).entry_time >= HOLD_SECONDS
      ]_vars

\* C3 witness: the strategy closed a position whose hold had elapsed.
C3_Witness ==
    \E i \in 1..Len(trade_sink) :
        /\ trade_sink[i].action \in StrategyCloses
        /\ ~IsOpen(positions, trade_sink[i].cid)
        /\ now - PosOf(trade_sink[i].cid).entry_time >= HOLD_SECONDS

\* C4 (as claimed): no position stays open longer than the maximum holding
\* duration while its market is being ticked.  The duration is left open by
\* the claim; here it is any duration shorter than the run.
C4_MaxHoldingDuration ==
    \A cid \in Cids :
        (pc = "running" /\ IsOpen(positions, cid) /\ DictHas(markets, cid))
        => now - PosOf(cid).entry_time < MaxTime - TimeStep

\* C4 (amended): an open position is closed only by an opposing strategy
\* action on a tick of its market (sell closes UP, buy closes DOWN), or by
\* the forced close made when every market has expired or when run() ends.
C4_ClosedOnlyByStrategyOrForce ==
    [][ \A cid \in Cids :
          Closes(cid) =>
            \E i \in 1..Len(trade_sink') :
              /\ trade_sink'[i].cid = cid
              /\ trade_sink'[i].side = PosOf(cid).side
              /\ \/ /\ trade_sink'[i].action \in StrategyCloses
                    /\ DictHas(markets', cid)
                    /\ \/ trade_sink'[i].on = "sell" /\ PosOf(cid).side = "UP"
                       \/ trade_sink'[i].on = "buy" /\ PosOf(cid).side = "DOWN"
                 \/ /\ trade_sink'[i].action \in ForcedCloses
                    /\ trade_sink'[i].on = "none"
                    /\ \/ Live(now') = <<>>
                       \/ pc' \in {"stopped", "crashed"}
      ]_vars

\* C4 witness: every market had expired and the engine, still running,
\* force-closed a position.
C4_Witness ==
    /\ pc = "running"
    /\ \E i \in 1..Len(trade_sink) :
          /\ trade_sink[i].action \in ForcedCloses
          /\ ~IsOpen(positions, trade_sink[i].cid)

\* C5 (as claimed): no entry fires on a cold buffer: a position opens only
\* when the market's buffer of observations holds at least one observation
\* (the weakest minimum).
C5_NoEntryOnColdBuffer ==
    [][ \A cid \in Cids :
          Opens(cid) =>
            /\ DictHas(states', cid)
            /\ DictGet(states', cid).prob_history # <<>> ]_vars

\* C5 (amended): a position goes from flat to open only on a tick where the
\* strategy returned buy or sell for its market: buy opens UP, sell opens
\* DOWN, at the own-side price of the market's current prob with the entry
\* cost factor, stamped with the time of the tick.
C5_EntryOnStrategyAction ==
    [][ \A cid \in Cids :
          Opens(cid) =>
            \E i \in 1..Len(trade_sink') :
              /\ trade_sink'[i].cid = cid
              /\ trade_sink'[i].action \in Entries
              /\ trade_sink'[i].on \in {"buy", "sell"}
              /\ DictGet(positions', cid).side =
                    (IF trade_sink'[i].on = "buy" THEN "UP" ELSE "DOWN")
              /\ DictHas(states', cid)
              /\ DictGet(positions', cid).entry_price =
                    (IF trade_sink'[i].on = "buy"
                     THEN DictGet(states', cid).prob
                     ELSE 1000 - DictGet(states', cid).prob) * FEE
              /\ DictGet(positions', cid).entry_time = now'
      ]_vars

\* C5 witness: a position was opened on this tick with no observation in the
\* market's buffer.
C5_Witness ==
    \E cid \in Cids :
        /\ IsOpen(positions, cid)
        /\ PosOf(cid).entry_time = now
        /\ SinkEvents(trade_sink, cid, Entries) # {}
        /\ DictHas(states, cid)
        /\ DictGet(states, cid).prob_history = <<>>

\* The prob a close of this step used: the forced close made when every
\* market has expired runs before refresh_markets rebuilds the states.
C6_ProbAtClose(cid) ==
    IF now' > now /\ Live(now') = <<>>
    THEN DictGet(states, cid).prob
    ELSE DictGet(states', cid).prob

\* The position a close of this step closed, as recorded at its entry: the
\* one open before the step, or the one opened earlier in the same step.
C6_HasEntry(cid) ==
    IsOpen(positions, cid) \/ SinkEvents(trade_sink', cid, Entries) # {}

C6_Entry(cid) ==
    IF IsOpen(positions, cid)
    THEN [side |-> PosOf(cid).side, size |-> PosOf(cid).size,
          entry_price |-> PosOf(cid).entry_price]
    ELSE LET i == CHOOSE i \in SinkEvents(trade_sink', cid, Entries) : TRUE
         IN [side |-> trade_sink'[i].side, size |-> trade_sink'[i].size,
             entry_price |-> trade_sink'[i].price]

C6_ExpectedPnl(cid) ==
    LET pos == C6_Entry(cid)
        own == IF pos.side = "UP" THEN C6_ProbAtClose(cid)
               ELSE 1000 - C6_ProbAtClose(cid)
        exit_price == own * EXIT_FEE
    IN [exit |-> exit_price,
        pnl |-> Rat((exit_price - pos.entry_price) * pos.size, pos.entry_price)]

RECURSIVE C6_Total(_, _)
C6_Total(total, sink) ==
    IF sink = <<>> THEN total
    ELSE C6_Total(RatAdd(total, Head(sink).pnl), Tail(sink))

\* C6: for every position that is closed, by the strategy or by force, the
\* realised P&L is (exit_price - entry_price) * (size / entry_price) with
\* exit_price the own-side price (prob for UP, 1 - prob for DOWN) times the
\* exit cost factor and entry_price, size as recorded at entry; the totals
\* grow by exactly these amounts.
C6_RealizedPnl ==
    [][ trade_count' > trade_count =>
          /\ \A i \in 1..Len(trade_sink') :
                trade_sink'[i].action \in StrategyCloses \cup ForcedCloses =>
                    /\ C6_HasEntry(trade_sink'[i].cid)
                    /\ trade_sink'[i].price =
                          C6_ExpectedPnl(trade_sink'[i].cid).exit
                    /\ trade_sink'[i].pnl =
                          C6_ExpectedPnl(trade_sink'[i].cid).pnl
          /\ total_pnl' = C6_Total(total_pnl, trade_sink')
      ]_vars

\* C6 witness: a DOWN position was closed with a loss and some position was
\* closed with a gain.
C6_Witness ==
    /\ win_count > 0
    /\ \E i \in 1..Len(trade_sink) :
          /\ trade_sink[i].action \in StrategyCloses \cup ForcedCloses
          /\ trade_sink[i].side = "DOWN"
          /\ trade_sink[i].pnl[1] < 0

\* C7: when the tasks of run() are cancelled, every position open at that
\* moment is force-closed exactly once: one forced-close trade per open
\* position, and afterwards no position has size > 0.
C7_ShutdownClosesAll ==
    [][ (pc = "running" /\ pc' \in {"stopped", "crashed"} /\ now' = now) =>
          \A cid \in Cids :
              /\ ~IsOpen(positions', cid)
              /\ IsOpen(positions, cid) =>
                    Cardinality(SinkEvents(trade_sink', cid, ForcedCloses)) = 1
      ]_vars

\* C7 witness: run() was cancelled with its markets still live and two
\* positions open; both were force-closed and no position is open.
C7_Witness ==
    /\ pc = "stopped"
    /\ markets # <<>>
    /\ Cardinality({i \in 1..Len(trade_sink) :
                       trade_sink[i].action \in ForcedCloses}) = 2
    /\ \A cid \in Cids : ~IsOpen(positions, cid)

----------------------------------------------------------------------------
(* Claims about OrderbookStreamer.stream, checked under SpecStream *)

\* The step closed the connection because the force-reconnect flag was set.
ForcedClose == spc # "closing" /\ spc' = "closing" /\ last_close' = "forced"

\* The step was a clear_stale call that removed a book or a subscription.
RemovedRecord ==
    \/ Len(orderbooks') < Len(orderbooks)
    \/ Len(subscriptions') < Len(subscriptions)

C11_FlagStep ==
    /\ stream_ev'.step = "clear_stale" =>
          force_reconnect' = (force_reconnect \/ RemovedRecord)
    /\ (~force_reconnect /\ force_reconnect') =>
          (stream_ev'.step = "clear_stale" /\ RemovedRecord)
    /\ (force_reconnect /\ ~force_reconnect') => ForcedClose
    /\ ForcedClose =>
          (force_reconnect /\ ~force_reconnect' /\ stream_ev'.kind = "none")

\* C11: a clear_stale call that removes a record sets the force-reconnect
\* flag; the flag is cleared only by a step that closes the connection, and
\* each such forced close clears it, so one setting of the flag is consumed
\* by exactly one close; a clear_stale call that removes nothing leaves the
\* flag as it was, and no connection is closed by force while it is not set.
\* The event loop keeps running the stream task, so a flag set while a
\* connection is open ends that connection.
C11_ForcedTeardown ==
    /\ [][C11_FlagStep]_vars
    /\ (force_reconnect /\ spc \in Connected)
          ~> (~force_reconnect \/ spc \notin Connected)

\* C11 witness: the latest call was a clear_stale, it set the flag, and the
\* connection is being closed with the flag consumed.
C11_Witness ==
    /\ feed_op.op = "clear_stale"
    /\ last_close = "forced"
    /\ spc = "closing"
    /\ ~force_reconnect
    /\ running

\* C12 (as claimed): after the reconnection that follows clear_stale(active),
\* with no call made since, the subscription message sent on the new
\* connection contains only token ids of markets in active.
C12_OnlyActiveTokens ==
    [][ (stream_ev'.kind = "initial" /\ last_close = "forced"
           /\ feed_op.op = "clear_stale" /\ feed_op.active # {})
        => \A i \in 1..Len(stream_ev'.tokens) :
              TokenCid(stream_ev'.tokens[i]) \in feed_op.active ]_vars

IsSuffix(s, t) ==
    Len(s) <= Len(t) /\ SubSeq(t, Len(t) - Len(s) + 1, Len(t)) = s

C13_LeavesInMessage ==
    Len(pending_subs') < Len(pending_subs) =>
        /\ stream_ev'.kind \in {"initial", "incremental"}
        /\ pending_subs' = <<>>
        /\ IsSuffix(pending_subs, stream_ev'.tokens)

C13_SameConnectionOrNext ==
    (queued_live > 0 /\ queued_live' = 0) =>
        \/ /\ stream_ev'.kind = "incremental"
           /\ stream_ev'.tokens = pending_subs
           /\ spc' = "flushing"
           /\ ~force_reconnect
        \/ /\ spc' \notin Connected
           /\ pending_subs' = pending_subs

C14_BackoffBeforeReconnect ==
    [][ (spc \in {"closing", "backoff"} /\ spc' = "connecting")
        => stream_ev'.step = "backoff_done" ]_vars

C14_ReconnectStep ==
    /\ (spc # "connecting" /\ spc' = "connecting") =>
          \/ stream_ev'.step = "backoff_done" /\ last_close' = "backoff"
          \/ /\ stream_ev'.step \in {"start", "wake", "closed"}
             /\ last_close' \in {"none", "backoff", "forced"}
    /\ (spc = "closing" /\ last_close = "forced" /\ spc' # spc) =>
          /\ stream_ev'.step = "closed"
          /\ spc' \in {"connecting", "sleeping", "done"}

\* C14 (amended): a connection (attempt) ended by an exception is always
\* followed by the fixed delay of one second before the loop connects again,
\* while a connection closed by the force-reconnect flag goes straight back
\* to the head of the loop and reconnects without that delay.
C14_BackoffAfterErrorOnly ==
    /\ [](last_close = "error" <=> spc = "backoff")
    /\ [][C14_ReconnectStep]_vars

\* C14 witness: the client connects again after the delay that followed an
\* exception.
C14_Witness ==
    /\ spc = "connecting"
    /\ stream_ev.step = "backoff_done"
    /\ last_close = "backoff"
    /\ running

KnownTokens == subscriptions # <<>> \/ pending_subs # <<>>

\* C15: while the client is running the connection loop has no terminal
\* state: stream() is never finished while running is set, every exception
\* on connect, send or receive leads to the delay and not out of the loop,
\* and as long as a subscription exists the delay is followed by a new
\* connection attempt, which sends a subscription message again when the
\* connection is made.
C15_NoTerminalState ==
    /\ [](running => spc # "done")
    /\ [][stream_ev'.step \in {"connect_fail", "send_fail", "flush_fail",
                               "recv_fail", "message_error"}
          => spc' = "backoff" /\ running' = running]_vars
    /\ (spc = "backoff" /\ running /\ KnownTokens)
          ~> (spc = "connecting" \/ ~running \/ ~KnownTokens)
    /\ (spc = "connecting" /\ running /\ KnownTokens)
          ~> (stream_ev.kind = "initial" \/ spc = "backoff" \/ ~running
                \/ ~KnownTokens)

\* C15 witness: after an exception and its delay the running client is
\* connected again and has sent the subscription message.
C15_Witness ==
    /\ last_close = "backoff"
    /\ running
    /\ spc = "sending"
    /\ stream_ev.step = "connect_ok"
    /\ stream_ev.kind = "initial"

\* C16 (as claimed): on each successful connection the client sends exactly
\* one subscription message covering all token ids known at that moment.
C16_MessageOnEveryConnection ==
    [][stream_ev'.step = "connect_ok" => stream_ev'.kind = "initial"]_vars

C16_ConnectStep ==
    /\ stream_ev'.step = "connect_ok" =>
          IF InitialTokens(CurrentFeed) # <<>>
          THEN /\ stream_ev'.kind = "initial"
               /\ stream_ev'.tokens = InitialTokens(CurrentFeed)
               /\ pending_subs' = <<>>
               /\ spc' = "sending"
               /\ conn_init' = 1
          ELSE /\ stream_ev'.kind = "none"
               /\ spc' = "closing"
               /\ conn_init' = 0
    /\ stream_ev'.kind = "initial" => stream_ev'.step = "connect_ok"
    /\ stream_ev'.step \in {"message", "message_error"} => conn_init = 1

\* C16 (amended): on each successful connection made while a token id is
\* known, the client sends exactly one initial subscription message, with
\* all token ids known at that moment (subscribed and pending), before it
\* processes any inbound message, and the pending queue is empty afterwards;
\* a connection made when no token id is known any more (clear_stale removed
\* every subscription while the connection was being made) sends no message
\* and is closed at once.
C16_InitialSubscription ==
    /\ [](spc \in Connected => conn_init = 1)
    /\ [][C16_ConnectStep]_vars

\* C16 witness: a connection was made and its one message carries the
\* subscribed tokens and the pending ones; the pending queue is empty.
C16_Witness ==
    /\ stream_ev.step = "connect_ok"
    /\ stream_ev.kind = "initial"
    /\ Len(stream_ev.tokens) > Len(subscriptions)
    /\ subscriptions # <<>>
    /\ pending_subs = <<>>
    /\ conn_init = 1

Disconnected == {"start", "sleeping", "closing", "backoff", "done"}

\* C17: the feed client starts to open a connection only when there is at
\* least one pending or active subscription; while the subscription list
\* and the pending queue are both empty a disconnected client stays
\* disconnected.
C17_ConnectsOnlyWithSubscriptions ==
    [][ /\ (spc # "connecting" /\ spc' = "connecting") =>
              (KnownTokens /\ subscriptions' = subscriptions
                 /\ pending_subs' = pending_subs)
        /\ (spc \in Disconnected /\ ~KnownTokens) => spc' \in Disconnected
      ]_vars

\* C17 witness: the running client looked at its empty lists after a sleep
\* and sleeps again.
C17_Witness ==
    /\ running
    /\ stream_ev.step = "wake"
    /\ spc = "sleeping"
    /\ subscriptions = <<>>
    /\ pending_subs = <<>>

Malformed(msg) ==
    \/ msg.type = "dict"
         /\ (ParseFails(msg.item.bids) \/ ParseFails(msg.item.asks))
    \/ msg.type = "list"
         /\ \E i \in 1..Len(msg.items) :
               ParseFails(msg.items[i].bids) \/ ParseFails(msg.items[i].asks)

\* C19: an inbound message that is valid JSON with unexpected content (a
\* price level without numeric price or size, alone or in a later element of
\* a snapshot array) is dropped as a whole: no OrderbookState is mutated, no
\* callback runs, and the error is not surfaced, so the connection is not
\* torn down for it.
C19_MalformedDropped ==
    [][ Malformed(stream_ev'.inbound) =>
          /\ orderbooks' = orderbooks
          /\ stream_ev'.callbacks = 0
          /\ stream_ev'.step = "message"
          /\ spc' # "backoff"
          /\ last_close' = last_close
      ]_vars

----------------------------------------------------------------------------
(* Claims about _handle_book_update, checked under SpecBook *)

Book(i) == orderbooks[i][2]

SortedDescending(levels, strict) ==
    \A i \in 1..(Len(levels) - 1) :
        IF strict THEN levels[i][1] > levels[i + 1][1]
        ELSE levels[i][1] >= levels[i + 1][1]

SortedAscending(levels, strict) ==
    \A i \in 1..(Len(levels) - 1) :
        IF strict THEN levels[i][1] < levels[i + 1][1]
        ELSE levels[i][1] <= levels[i + 1][1]

\* C20 (as claimed): after every applied book update, for any list of
\* levels in the message, the bids are sorted strictly descending by price,
\* the asks strictly ascending, and each side holds at most 10 entries.
C20_StrictlySorted ==
    \A i \in 1..Len(orderbooks) :
        /\ SortedDescending(Book(i).bids, TRUE)
        /\ SortedAscending(Book(i).asks, TRUE)
        /\ Len(Book(i).bids) <= DEPTH
        /\ Len(Book(i).asks) <= DEPTH

\* C20 (amended): after every applied book update, for any list of levels
\* in the message, the bids are sorted descending by price and the asks
\* ascending, levels of equal price being all kept next to each other, and
\* each side holds at most 10 entries: all the levels of a message of at
\* most 10, the first 10 of the sorted levels otherwise.
C20_SortedAndCapped ==
    /\ [](\A i \in 1..Len(orderbooks) :
             /\ SortedDescending(Book(i).bids, FALSE)
             /\ SortedAscending(Book(i).asks, FALSE)
             /\ Len(Book(i).bids) <= DEPTH
             /\ Len(Book(i).asks) <= DEPTH)
    /\ [][(feed_op'.op = "book_update"
              /\ MatchingBook(orderbooks, feed_op'.asset_id) # 0) =>
            LET msg == feed_op'
                b == orderbooks'[MatchingBook(orderbooks, msg.asset_id)][2]
            IN /\ Len(b.bids) = Min(Len(msg.bids), DEPTH)
               /\ Len(b.asks) = Min(Len(msg.asks), DEPTH)
               /\ Range(b.bids) \subseteq Range(msg.bids)
               /\ Range(b.asks) \subseteq Range(msg.asks)
               /\ \A lv \in Range(msg.bids) \ Range(b.bids) :
                     \A kept \in Range(b.bids) : kept[1] >= lv[1]
               /\ \A lv \in Range(msg.asks) \ Range(b.asks) :
                     \A kept \in Range(b.asks) : kept[1] <= lv[1]
         ]_vars

\* C20 witness: an update with more than 10 levels, two of them at the same
\* price, was applied; the book holds 10 bids with the equal prices next to
\* each other.
C20_Witness ==
    /\ feed_op.op = "book_update"
    /\ \E i \in 1..Len(orderbooks) :
          /\ Book(i).token_id = feed_op.asset_id
          /\ Len(Book(i).bids) = DEPTH
          /\ \E j \in 1..(DEPTH - 1) :
                Book(i).bids[j][1] = Book(i).bids[j + 1][1]
          /\ Len(Book(i).asks) = Len(TiedLevels)

\* C21: for every OrderbookState, mid_price is the average of best bid and
\* best ask when both sides are non-empty, the best price of the non-empty
\* side when exactly one side is non-empty, and None when both are empty,
\* for every price value, a best bid or best ask of 0 included.
C21_MidPrice ==
    \A i \in 1..Len(orderbooks) :
        mid_price(Book(i)) =
            IF Book(i).bids # <<>> /\ Book(i).asks # <<>>
            THEN (Book(i).bids[1][1] + Book(i).asks[1][1]) \div 2
            ELSE IF Book(i).bids # <<>> THEN Book(i).bids[1][1]
            ELSE IF Book(i).asks # <<>> THEN Book(i).asks[1][1]
            ELSE NoneVal

RECURSIVE MaxPrice(_)
MaxPrice(levels) ==
    IF Len(levels) = 1 THEN levels[1][1]
    ELSE LET m == MaxPrice(Tail(levels))
         IN IF levels[1][1] >= m THEN levels[1][1] ELSE m

RECURSIVE MinPrice(_)
MinPrice(levels) ==
    IF Len(levels) = 1 THEN levels[1][1]
    ELSE LET m == MinPrice(Tail(levels))
         IN IF levels[1][1] <= m THEN levels[1][1] ELSE m

\* The elements of a snapshot array that name different tokens and have
\* levels on both sides.
C22_Plain(items) ==
    /\ \A k, l \in 1..Len(items) : items[k].asset_id = items[l].asset_id => k = l
    /\ \A k \in 1..Len(items) : items[k].bids # <<>> /\ items[k].asks # <<>>

\* C22: after a snapshot array is processed, for each element whose asset_id
\* matches a subscribed token, that token's best_bid is the highest bid
\* price of the element, its best_ask the lowest ask price and its spread
\* best_ask - best_bid, whatever the order of the levels in the message;
\* the books of the tokens no element names are as they were.
C22_SnapshotBestPrices ==
    [][ (feed_op'.op = "snapshot" /\ C22_Plain(feed_op'.items)) =>
          /\ Len(orderbooks') = Len(orderbooks)
          /\ \A i \in 1..Len(orderbooks) :
                LET ob == orderbooks'[i][2]
                    named == {k \in 1..Len(feed_op'.items) :
                                feed_op'.items[k].asset_id = ob.token_id}
                IN /\ named = {} => orderbooks'[i] = orderbooks[i]
                   /\ \A k \in named :
                         /\ best_bid(ob) = MaxPrice(feed_op'.items[k].bids)
                         /\ best_ask(ob) = MinPrice(feed_op'.items[k].asks)
                         /\ spread(ob) = MinPrice(feed_op'.items[k].asks)
                                           - MaxPrice(feed_op'.items[k].bids)
      ]_vars

\* C23: each registered callback is invoked exactly once per applied book
\* update, with the already-updated OrderbookState, in the order the
\* updates arrived and in registration order among the callbacks; a
\* callback that raises prevents neither the state update nor the calls of
\* the remaining callbacks.
C23_CallbacksPerUpdate ==
    [][ feed_op'.op = "snapshot" =>
          LET Hit(it) == MatchingBook(orderbooks, it.asset_id) # 0
              applied == SelectSeq(feed_op'.items, Hit)
              calls == feed_op'.calls
          IN /\ Len(calls) = NumCallbacks * Len(applied)
             /\ \A j \in 1..Len(applied) : \A k \in 1..NumCallbacks :
                   LET c == calls[(j - 1) * NumCallbacks + k]
                   IN /\ c.cb = k
                      /\ c.ob.token_id = applied[j].asset_id
                      /\ c.ob.bids = Truncate(SortLevels(applied[j].bids, TRUE),
                                              DEPTH)
                      /\ c.ob.asks = Truncate(SortLevels(applied[j].asks, FALSE),
                                              DEPTH)
                      /\ c.ob.last_update = now
             /\ \A i \in 1..Len(orderbooks') :
                   \A j \in 1..Len(applied) :
                      (/\ applied[j].asset_id = orderbooks'[i][2].token_id
                       /\ \A l \in (j + 1)..Len(applied) :
                             applied[l].asset_id # applied[j].asset_id)
                      => orderbooks'[i][2] = calls[j * NumCallbacks].ob
      ]_vars

\* C23 witness: two updates of one array were applied to the same book with
\* different levels; every callback was called for each, the first callback
\* raised each time.
C23_Witness ==
    /\ feed_op.op = "snapshot"
    /\ Len(feed_op.calls) = 2 * NumCallbacks
    /\ feed_op.calls[1].raised
    /\ feed_op.calls[1].ob.token_id = feed_op.calls[Len(feed_op.calls)].ob.token_id
    /\ feed_op.calls[1].ob.bids # feed_op.calls[Len(feed_op.calls)].ob.bids
    /\ feed_op.calls[NumCallbacks].cb = NumCallbacks

----------------------------------------------------------------------------
(* More claims about the TradingEngine, checked under SpecEngine *)

\* A pass of decision_loop that found every market expired and so closes
\* all positions and refreshes the markets.
RefreshPass == pc = "running" /\ now' # now /\ Live(now') = <<>>

\* C25: a failure (exception) of the market-discovery collaborator during
\* refresh_markets does not crash the engine: whatever get_15m_markets
\* does, a refresh pass whose forced closes went through leaves the
\* decision loop running.
C25_DiscoveryFailureSurvived ==
    [][ (RefreshPass /\ ~CloseAllPositions(CurrentEngine, now').raised)
        => pc' = "running" ]_vars

\* A step in which refresh_markets ran to its end.
Refreshed ==
    \/ pc = "init" /\ pc' \in {"running", "returned"}
    \/ RefreshPass /\ pc' = "running"

\* C26: after every market refresh the feed client holds no OrderbookState
\* record and no subscription record of a market that is not in the
\* refreshed active set, an empty active set included.
C26_NoStaleAfterRefresh ==
    [][ Refreshed =>
          /\ \A i \in 1..Len(orderbooks') :
                DictHas(markets', orderbooks'[i][2].condition_id)
          /\ \A i \in 1..Len(subscriptions') :
                DictHas(markets', subscriptions'[i][1])
      ]_vars

\* A step of run(): a pass of decision_loop or the cancellation.
EngineStep == pc = "running" /\ (now' # now \/ pc' # "running")

C27_Closes(sink) ==
    {i \in 1..Len(sink) : sink[i].action \in StrategyCloses \cup ForcedCloses}

C27_TotalsStep ==
    IF EngineStep
    THEN /\ trade_count' = trade_count + Cardinality(C27_Closes(trade_sink'))
         /\ win_count' = win_count
              + Cardinality({i \in C27_Closes(trade_sink') :
                                RatPositive(trade_sink'[i].pnl)})
         /\ total_pnl' =
              C6_Total(total_pnl,
                       SelectSeq(trade_sink',
                                 LAMBDA ev : ev.action \in StrategyCloses
                                                         \cup ForcedCloses))
    ELSE /\ trade_count' = trade_count
         /\ win_count' = win_count
         /\ total_pnl' = total_pnl

\* C27: the running totals change only when a trade is realised: each
\* close, by the strategy or forced, adds its P&L to total_pnl, adds one to
\* trade_count and adds one to win_count exactly when its P&L is positive;
\* a step that only opens positions or holds changes none of the three, and
\* win_count <= trade_count always.
C27_RunningTotals ==
    /\ [](win_count <= trade_count)
    /\ [][C27_TotalsStep]_vars

\* C27 witness: two trades were realised, one with a gain; the latest step
\* closed a position without a gain and opened another one.
C27_Witness ==
    /\ trade_count = 2
    /\ win_count = 1
    /\ \E i \in C27_Closes(trade_sink) : ~RatPositive(trade_sink[i].pnl)
    /\ \E i \in 1..Len(trade_sink) : trade_sink[i].action \in Entries

\* The close events of a step, in the order they were put on the trade sink.
C28_CloseEvents(sink) ==
    SelectSeq(sink, LAMBDA ev : ev.action \in StrategyCloses \cup ForcedCloses)

\* The k-th trade realised in a step: given the totals before the step and
\* the closes of the step, the snapshot pushed after its event carries the
\* totals with this trade counted.
C28_SnapshotIncludes(closes, k, pnl0, n0, w0) ==
    LET before == SubSeq(closes, 1, k)
    IN /\ closes[k].dash.pushed
       /\ closes[k].dash.trade_count = n0 + k
       /\ closes[k].dash.total_pnl = C6_Total(pnl0, before)
       /\ closes[k].dash.win_count =
            w0 + Cardinality({j \in 1..k : RatPositive(closes[j].pnl)})

\* C28 (as claimed): every realised trade puts exactly one event on the
\* trade sink and then pushes one snapshot to the dashboard sink, and the
\* totals of that snapshot already include the trade.
C28_TradeThenSnapshot ==
    [][EngineStep =>
         LET closes == C28_CloseEvents(trade_sink')
         IN /\ Len(closes) = trade_count' - trade_count
            /\ \A k \in 1..Len(closes) :
                 C28_SnapshotIncludes(closes, k, total_pnl, trade_count,
                                      win_count)
      ]_vars

----------------------------------------------------------------------------
(* The decision pass next to the feed task, checked under SpecLoop *)

\* The feed was written: a book, the subscriptions or the pending tokens.
C29_FeedWritten ==
    \/ orderbooks' # orderbooks
    \/ subscriptions' # subscriptions
    \/ pending_subs' # pending_subs

\* The loop body ran for the market the pass is at.
C29_DecisionStep ==
    /\ pc = "running"
    /\ loop_at \in 1..Len(markets)
    /\ loop_at' # loop_at

\* The market state a decision is taken from, when the book is read from
\* the orderbooks as they were when the pass began.
C29_StateFromPassBooks(cid) ==
    ReadBook(DictGet(states, cid),
             [CurrentFeed EXCEPT !.orderbooks = pass_books], cid)

\* C29: the processing of all markets within one pass of decision_loop is
\* atomic with respect to the feed task: no book update, subscribe or
\* clear_stale happens between the beginning of a pass and its end, and
\* every decision is taken from the book as it stood when the pass began.
C29_TickAtomic ==
    [][/\ C29_FeedWritten => (loop_at = 0 /\ loop_at' = 0)
       /\ C29_DecisionStep =>
            /\ orderbooks = pass_books
            /\ \A cid \in {markets[loop_at][1]} :
                 DictHas(states, cid) =>
                   DictGet(states', cid) = C29_StateFromPassBooks(cid)
      ]_vars

\* C29 witness: the pass is at its second market; the feed task wrote a
\* book before the pass began, and the decision for the first market, taken
\* from that book, opened a position.
C29_Witness ==
    /\ pc = "running"
    /\ loop_at = 2
    /\ feed_op.op = "book_update"
    /\ orderbooks = pass_books
    /\ \E i \in 1..Len(pass_books) : pass_books[i][2].last_update >= 0
    /\ \E i \in 1..Len(trade_sink) :
         /\ trade_sink[i].action \in Entries
         /\ trade_sink[i].cid = CidA
         /\ trade_sink[i].price # 500 * FEE

----------------------------------------------------------------------------
(* Execution costs, checked under SpecEngine *)

\* The quoted own-side price of an event, in the unit of entry_price and
\* exit_price (thousandths times percent): state.prob for UP, 1 - state.prob
\* for DOWN, of the market state the step decided from (a pass that finds
\* every market expired closes at the states it began with and then clears
\* them).
C30_Quote(ev, sts) == OwnSidePrice(ev.side, DictGet(sts, ev.cid).prob) * 100

C30_EventCost(ev, sts) ==
    /\ ev.action \in Entries => ev.price >= C30_Quote(ev, sts)
    /\ ev.action \in StrategyCloses \cup ForcedCloses =>
         ev.price <= C30_Quote(ev, sts)

\* C30: for every opened position the entry price is not better than the
\* quoted own-side price (entry_price >= prob for UP, 1 - prob for DOWN),
\* and for every close, by the strategy or forced, the exit price is not
\* better than the quoted own-side price (exit_price <= quote); the entry
\* factor is as far above 1 as both exit factors are below it.
C30_CostsAgainstTrader ==
    /\ [](FEE - 100 = 100 - EXIT_FEE /\ FORCE_EXIT_FEE = EXIT_FEE)
    /\ [](\A cid \in Cids :
            IsOpen(positions, cid) =>
              PosOf(cid).entry_price
                >= OwnSidePrice(PosOf(cid).side, PosOf(cid).entry_prob) * 100)
    /\ [][EngineStep =>
            \A i \in 1..Len(trade_sink') :
              C30_EventCost(trade_sink'[i],
                            IF RefreshPass THEN states ELSE states')]_vars

\* C30 witness: a position opened above its quote was closed by the
\* strategy below the quote of the closing pass.
C30_Witness ==
    \E i \in 1..Len(trade_sink) :
      /\ trade_sink[i].action \in StrategyCloses
      /\ trade_sink[i].price > 0
      /\ trade_sink[i].price < C30_Quote(trade_sink[i], states)
      /\ PosOf(trade_sink[i].cid).size = 0
      /\ PosOf(trade_sink[i].cid).entry_price
           > OwnSidePrice(trade_sink[i].side,
                          PosOf(trade_sink[i].cid).entry_prob) * 100

----------------------------------------------------------------------------
(* The window of observations, checked under SpecHistory *)

\* The mid price a pass reads for a market: its UP book as the step finds it.
C31_Observed(cid) ==
    IF HasOrderbook(CurrentFeed, cid, "UP")
    THEN mid_price(GetOrderbook(CurrentFeed, cid, "UP")) ELSE NoneVal

\* h2 is h1 after the observation mid arrived: mid is last, the observations
\* before it keep their order, and only the oldest are missing.
C31_Slides(h1, h2, mid) ==
    LET gone == Len(h1) + 1 - Len(h2)
    IN /\ Len(h2) = IF Len(h1) + 1 > HISTORY_MAX THEN HISTORY_MAX
                    ELSE Len(h1) + 1
       /\ h2[Len(h2)] = mid
       /\ \A i \in 1..(Len(h2) - 1) : h2[i] = h1[i + gone]

\* C31: the buffer of recent mid-price observations of every market is
\* bounded: it never holds more than 100 observations, and a pass that
\* observes a mid price appends it and, on overflow, evicts the oldest
\* observations, so that the buffer holds the most recent ones in arrival
\* order; a pass that observes none leaves the buffer as it was.
C31_HistoryWindow ==
    /\ [](\A i \in 1..Len(states) :
            Len(states[i][2].prob_history) <= HISTORY_MAX)
    /\ [][now' # now =>
            \A i \in 1..Len(markets') :
              \A cid \in {markets'[i][1]} :
                DictHas(states, cid) =>
                  IF Truthy(C31_Observed(cid))
                  THEN C31_Slides(DictGet(states, cid).prob_history,
                                  DictGet(states', cid).prob_history,
                                  C31_Observed(cid))
                  ELSE DictGet(states', cid).prob_history
                         = DictGet(states, cid).prob_history
      ]_vars

\* C31 witness: the full window took two more observations: the two oldest
\* are gone and the newest is last.
C31_Witness ==
    \E i \in 1..Len(states) :
      /\ Len(states[i][2].prob_history) = HISTORY_MAX
      /\ states[i][2].prob_history[1] = 403
      /\ states[i][2].prob_history[HISTORY_MAX - 2] = 400 + HISTORY_MAX
      /\ states[i][2].prob_history[HISTORY_MAX] \in {700, 1000}

----------------------------------------------------------------------------
(* More claims about OrderbookStreamer.stream, checked under SpecStream *)

\* C32 (as claimed): no subscription message the feed client sends, initial
\* or incremental, contains the same token id more than once.
C32_NoDuplicateTokens ==
    stream_ev.kind # "none" =>
      \A i, j \in 1..Len(stream_ev.tokens) :
        stream_ev.tokens[i] = stream_ev.tokens[j] => i = j

----------------------------------------------------------------------------
(* More claims about the OrderbookStreamer's calls, checked under SpecFeed *)

\* C33 (as claimed): the token id of every OrderbookState record appears in
\* the subscription records, after any sequence of subscribe and
\* clear_stale calls.
C33_BookTokensSubscribed ==
    \A i \in 1..Len(orderbooks) :
      \E j \in 1..Len(subscriptions) :
        subscriptions[j][2] = orderbooks[i][2].token_id

----------------------------------------------------------------------------
(* execute_action call by call, checked under SpecLoop *)

\* The loop body, and with it at most one execute_action call, ran for the
\* market the pass is at.
C34_CallStep ==
    /\ pc = "running"
    /\ loop_at \in 1..Len(markets)
    /\ loop_at' # loop_at

C34_StrategyCloses(sink) ==
    {i \in 1..Len(sink) : sink[i].action \in StrategyCloses}

\* The call for market cid, whose position was pos before it.
C34_Call(cid, pos) ==
    LET closes == C34_StrategyCloses(trade_sink')
    IN /\ \A i \in closes :
            /\ pos.size > 0
            /\ trade_sink'[i].cid = cid
            /\ now - pos.entry_time >= HOLD_SECONDS
            /\ \/ trade_sink'[i].on = "sell" /\ pos.side = "UP"
               \/ trade_sink'[i].on = "buy" /\ pos.side = "DOWN"
       /\ Cardinality(closes) <= 1
       /\ closes # {} =>
            /\ \A i \in 1..Len(trade_sink') :
                 trade_sink'[i].action \notin Entries
            /\ pc' = "running" =>
                 /\ DictGet(positions', cid).size = 0
                 /\ DictGet(positions', cid).side = "NONE"
       /\ (pos.size > 0 /\ closes = {} /\ pc' = "running") =>
            /\ DictGet(positions', cid) = pos
            /\ trade_sink' = <<>>
            /\ total_pnl' = total_pnl
            /\ trade_count' = trade_count
            /\ win_count' = win_count

\* C34: a strategy action closes an open position only if at least 30
\* seconds have passed since its entry and the action opposes it (sell for
\* UP, buy for DOWN); any other action on an open position leaves the
\* position and the totals unchanged; and the call that closes a position
\* opens no new one.
C34_CloseConditions ==
    [][C34_CallStep =>
         \A cid \in {markets[loop_at][1]} :
           DictHas(positions, cid) => C34_Call(cid, DictGet(positions, cid))
      ]_vars

\* C34 witness: the strategy closed an UP position with a sell after the
\* hold, and the position is flat.
C34_Witness ==
    /\ pc = "running"
    /\ loop_at > 1
    /\ \E i \in 1..Len(trade_sink) :
         /\ trade_sink[i].action = "CLOSE UP"
         /\ trade_sink[i].on = "sell"
         /\ PosOf(trade_sink[i].cid).size = 0
         /\ now - PosOf(trade_sink[i].cid).entry_time >= HOLD_SECONDS

----------------------------------------------------------------------------
(* Positions and their entry price, checked under SpecEngine *)

\* C35 (as claimed): every open position has entry_price > 0, for every
\* quoted probability at which a buy or a sell can be executed, so that no
\* shares computation size / entry_price divides by zero.
C35_EntryPricePositive ==
    \A cid \in Cids : IsOpen(positions, cid) => PosOf(cid).entry_price > 0

\* Every position with size > 0 has a MarketState under its market id.
C36_OpenHasState ==
    \A cid \in Cids : IsOpen(positions, cid) => DictHas(states, cid)

\* close_all_positions ran in this step: the pass found every market
\* expired, or run() reached its finally block.
C36_ClosedAll == pc = "running" /\ (pc' # "running" \/ RefreshPass)

\* C36 (as claimed): every position with size > 0 has a MarketState entry
\* under the same market id, also when its market expired and left the
\* registry, so that close_all_positions always leaves every position flat.
C36_CloseAllLeavesFlat ==
    /\ []C36_OpenHasState
    /\ [][C36_ClosedAll => \A cid \in Cids : ~IsOpen(positions', cid)]_vars

\* C37 (as claimed): the dashboard snapshot pushed when a trade is realised
\* does not list the position that was just closed among the open
\* positions.
C37_ClosedNotListed ==
    \A i \in 1..Len(trade_sink) :
      (/\ trade_sink[i].action \in StrategyCloses \cup ForcedCloses
       /\ trade_sink[i].dash.pushed) =>
        \A k \in 1..Len(trade_sink[i].dash.positions) :
          trade_sink[i].dash.positions[k][1] # trade_sink[i].cid

----------------------------------------------------------------------------
(* The dashboard emitter thread, checked under SpecDash *)

\* C38 (as claimed): every state_update emitted by the emitter thread
\* carries total_pnl, trade_count, win_count, positions and markets that all
\* come from one and the same update_dashboard_state call of the engine.
C38_SnapshotFromOneCall ==
    state_update # <<>> =>
      \A i, j \in 1..Len(state_update) : state_update[i] = state_update[j]

----------------------------------------------------------------------------
(* stop(), checked under SpecStreamFair *)

\* C39 (as claimed): once stop() has been called, stream() eventually
\* returns, and it begins no new connection in the meantime, from every
\* state of the connection loop and also when stop() is called before
\* stream() has started running.
C39_StopTerminates ==
    /\ [][(~running /\ ~running' /\ spc # "connecting")
            => spc' # "connecting"]_vars
    /\ (stream_ev.step = "stop") ~> (spc = "done")

====
